---------------------------- MODULE Spec2Model ----------------------------
(***************************************************************************)
(* CarbuGo: station clustering, viewport filtering and the debounced       *)
(* bounds-fetch controller of the map, with the server's response cache;   *)
(* the price tiers, the cluster marker, the station list panel, the XML    *)
(* loader and the station search of the storage; the reload of the        *)
(* stations against concurrent reads, the route table of the server, the   *)
(* selection of a station on the home page and the stored favorites.       *)
(*                                                                         *)
(* Coordinates are integers in hundredths of a degree, so the cluster      *)
(* distances 0.05 / 0.02 / 0.01 are 5 / 2 / 1 and the comparison           *)
(* sqrt(dlat^2 + dlon^2) <= d is dlat^2 + dlon^2 <= d^2.                   *)
(***************************************************************************)
EXTENDS Integers, Sequences, FiniteSets, TLC

VARIABLES
    \* ---- StationCluster (station-cluster.tsx) ----
    props,            \* [stations, zoom, bounds]: the props of the component
    pc,               \* "mounted" before the first render, "rendered" after
    visibleStations,  \* useMemo result, lines 36-43
    clusters,         \* useMemo result, lines 49-95
    singleStations,   \* useMemo result, lines 49-95
    clickedMarker,    \* the marker clicked last since the render: <<>>,
                      \* <<"cluster", index>> or <<"station", index>>
    calls,            \* the arguments of the onStationClick calls of that click
    \* ---- OptimizedMapContainer (optimized-map-container.tsx) ----
    bounds,           \* useState, lines 56-61
    zoom,             \* useState, line 62
    debouncedBounds,  \* useDebounce(bounds, 300), line 65
    timerActive,      \* a debounce timer is pending
    timerLeft,        \* ms until the pending debounce timer fires
    q,                \* the bounds queries of the query cache, by bounds value
    lastIssued,       \* bounds of the most recently issued bounds fetch
    lastArrived,      \* <<bounds>> of the most recently arrived result, or <<>>
    \* ---- Home (all-stations query and refresh button) ----
    qAll,             \* the query ["/api/stations"]
    refreshing,       \* handleRefresh: "no", "pending" (awaiting refetch()),
                      \* "done" or "failed" (how the last one ended)
    refreshes,        \* number of refresh actions started
    \* ---- server (routes.ts) ----
    cache,            \* the response cache, by cache key
    \* ---- price utilities (lib/utils.ts) ----
    price,            \* the argument: a price in thousandths of a euro, or NULL
    priceColor,       \* getPriceColor(price), "" before the call
    badgeVariant,     \* getPriceBadgeVariant(price), "" before the call
    \* ---- ClusterMarker (cluster-marker.tsx) ----
    markerStations,   \* the stations prop: the members of the cluster
    cheapestStation,  \* <<station>> once rendered, <<>> before
    clusterColor,     \* the colour of the icon, "" before the render
    \* ---- StationListPanel (station-list-panel.tsx) ----
    listStations,     \* the stations prop
    userLocation,     \* the userLocation prop: <<>> when absent, <<point>> otherwise
    sortBy,           \* useState, line 31
    sortOrder,        \* useState, line 32
    fuelFilter,       \* useState, line 33
    filteredAndSortedStations,   \* useMemo result, lines 51-87
    \* ---- XMLStationLoader (xml-loader.ts) ----
    xmlFeed,          \* result.pdv_liste.pdv: the entries of the parsed feed
    loadedStations,   \* <<stations>> returned by parseXMLData, <<>> before
    \* ---- storage.searchStations (storage.ts) ----
    storageKind,      \* "database" or "memory", storage.ts 318-320
    storedStations,   \* the stations held by the storage
    searchQuery,      \* the query of the search request
    searchResult,     \* <<stations>> returned by searchStations, <<>> before
    \* ---- POST /api/stations/load-xml and the cached GET routes (routes.ts) ----
    reload,           \* [pc, i]: the position of the load-xml handler and the
                      \* index of the station that the loop adds next
    getReq,           \* by cache key: [pc, data], the position of the GET
                      \* handler and the rows that the storage returned to it
    response,         \* by cache key: [status, body] of the last response
    \* ---- the router of the server (registerRoutes, routes.ts) ----
    request,          \* <<>> or <<[method, path]>>: the request dispatched last
    handledBy,        \* the route whose handler answered it, "" before
    \* ---- Home (selection and details sheet, lib/utils.ts) ----
    selectedStationId,   \* useState, line 120: the selected id, or NULL
    \* ---- useFavorites (hooks/use-favorites.ts) ----
    favPc,            \* "rendered" before the effect of the mount, "mounted" after
    favorites,        \* useState<Set<string>>: the ids in insertion order
    localStorage,     \* the item under FAVORITES_KEY: [kind, ids], kind
                      \* "none" (no item), "list" (JSON of an array of ids)
                      \* or "invalid" (a text that JSON.parse rejects)
    saveOutcome       \* how the last saveFavorites ended: "", "saved" or "threw"

clusterVars == <<props, pc, visibleStations, clusters, singleStations,
                 clickedMarker, calls>>

mapVars == <<bounds, zoom, debouncedBounds, timerActive, timerLeft, q,
             lastIssued, lastArrived, qAll, refreshing, refreshes, cache>>

priceVars == <<price, priceColor, badgeVariant>>

markerVars == <<markerStations, cheapestStation, clusterColor>>

listVars == <<listStations, userLocation, sortBy, sortOrder, fuelFilter,
              filteredAndSortedStations>>

loaderVars == <<xmlFeed, loadedStations>>

searchVars == <<storageKind, storedStations, searchQuery, searchResult>>

reloadVars == <<reload, getReq, response>>

\* the variables of the server routes and of the page around the map
routeVars == <<request, handledBy>>

homeVars == <<selectedStationId>>

favVars == <<favPc, favorites, localStorage, saveOutcome>>

restVars == <<reloadVars, routeVars, homeVars, favVars>>

\* the variables of restVars that the reload, the router, the selection
\* and the favorites leave alone
restButReload == <<routeVars, homeVars, favVars>>

restButRoute == <<reloadVars, homeVars, favVars>>

restButHome == <<reloadVars, routeVars, favVars>>

restButFav == <<reloadVars, routeVars, homeVars>>

\* the variables of the components that the map controller does not touch
panelVars == <<priceVars, markerVars, listVars, loaderVars, searchVars, restVars>>

vars == <<props, pc, visibleStations, clusters, singleStations,
          clickedMarker, calls,
          bounds, zoom, debouncedBounds, timerActive, timerLeft, q,
          lastIssued, lastArrived, qAll, refreshing, refreshes, cache,
          price, priceColor, badgeVariant,
          markerStations, cheapestStation, clusterColor,
          listStations, userLocation, sortBy, sortOrder, fuelFilter,
          filteredAndSortedStations,
          xmlFeed, loadedStations,
          storageKind, storedStations, searchQuery, searchResult,
          reload, getReq, response,
          request, handledBy,
          selectedStationId,
          favPc, favorites, localStorage, saveOutcome>>

-----------------------------------------------------------------------------
(* Bounds of the model *)

MaxStations == 3      \* longest station list handed to StationCluster

\* coordinates (hundredths of a degree) the generated stations may take
Points == { <<0, 0>>, <<1, 0>>, <<3, 0>>, <<3, 4>> }

\* zoom levels handed to StationCluster: one per distance band, and the
\* first level at which clustering is off
ClusterZooms == {7, 9, 11, 12}

\* viewports handed to StationCluster
ClusterBounds ==
    { [north |-> 3, south |-> 0, east |-> 4, west |-> 0],
      [north |-> 3, south |-> 1, east |-> 4, west |-> 0],
      [north |-> 1, south |-> 1, east |-> 0, west |-> 0] }

StationIds == 1 .. MaxStations

-----------------------------------------------------------------------------
(* Helpers on sequences *)

Range(s) == { s[i] : i \in DOMAIN s }

RECURSIVE SumSeq(_)
SumSeq(s) == IF s = <<>> THEN 0 ELSE Head(s) + SumSeq(Tail(s))

\* all sequences over S of length at most n
SeqsUpTo(S, n) == UNION { [1 .. k -> S] : k \in 0 .. n }

-----------------------------------------------------------------------------
(* StationCluster: visible stations *)

InBounds_strict(station, b) ==
    /\ station.lat > b.south
    /\ station.lat < b.north
    /\ station.lon > b.west
    /\ station.lon < b.east

\* the predicate of the filter, station-cluster.tsx 38-41 (the same
\* comparison as MemStorage.getStationsInBounds, storage.ts 290-293)
InBounds(station, b) ==
    /\ station.lat >= b.south
    /\ station.lat <= b.north
    /\ station.lon >= b.west
    /\ station.lon <= b.east

\* stations.filter(...): a new array, the input is left alone
FilterVisible(S, b) == SelectSeq(S, LAMBDA station : InBounds(station, b))

-----------------------------------------------------------------------------
(* StationCluster: clustering pass *)

ShouldCluster_inclusive(z) == z <= 12

ShouldCluster(z) == z < 12

ClusterDistance_twoBands(z) == IF z < 8 THEN 5 ELSE 2

ClusterDistance(z) == IF z < 8 THEN 5 ELSE IF z < 10 THEN 2 ELSE 1

WithinDistance_strict(a, b, d) ==
    (a.lat - b.lat) * (a.lat - b.lat) + (a.lon - b.lon) * (a.lon - b.lon) < d * d

\* Math.sqrt(dlat^2 + dlon^2) <= clusterDistance
WithinDistance(a, b, d) ==
    (a.lat - b.lat) * (a.lat - b.lat) + (a.lon - b.lon) * (a.lon - b.lon) <= d * d

NearbyStations_ignoreProcessed(vis, station, processed, d) ==
    SelectSeq(vis, LAMBDA other :
        /\ ~ (other.id = station.id)
        /\ WithinDistance(station, other, d))

\* visibleStations.filter(other => ...), lines 62-71
NearbyStations(vis, station, processed, d) ==
    SelectSeq(vis, LAMBDA other :
        /\ ~ (other.id \in processed \/ other.id = station.id)
        /\ WithinDistance(station, other, d))

\* reduce((sum, s) => sum + s.lat, 0) / length, kept as an exact fraction
Mean(values) == [num |-> SumSeq(values), den |-> Len(values)]

ClusterGroup_atSeed(allStations) ==
    [stations |-> allStations,
     lat |-> [num |-> allStations[1].lat, den |-> 1],
     lng |-> [num |-> allStations[1].lon, den |-> 1]]

\* the object pushed to clustered, lines 75-83
ClusterGroup(allStations) ==
    [stations |-> allStations,
     lat |-> Mean([i \in DOMAIN allStations |-> allStations[i].lat]),
     lng |-> Mean([i \in DOMAIN allStations |-> allStations[i].lon])]

RECURSIVE ClusterLoop_alwaysCluster(_, _, _, _, _, _)
ClusterLoop_alwaysCluster(vis, i, d, processed, clustered, singles) ==
    IF i > Len(vis)
    THEN [clusters |-> clustered, singleStations |-> singles]
    ELSE LET station == vis[i] IN
         IF station.id \in processed
         THEN ClusterLoop_alwaysCluster(vis, i + 1, d, processed, clustered, singles)
         ELSE LET nearbyStations == NearbyStations(vis, station, processed, d)
                  allStations == <<station>> \o nearbyStations
              IN ClusterLoop_alwaysCluster(vis, i + 1, d,
                     processed \cup { s.id : s \in Range(allStations) },
                     Append(clustered, ClusterGroup(allStations)),
                     singles)

\* the forEach of lines 58-92, from index i on
RECURSIVE ClusterLoop(_, _, _, _, _, _)
ClusterLoop(vis, i, d, processed, clustered, singles) ==
    IF i > Len(vis)
    THEN [clusters |-> clustered, singleStations |-> singles]
    ELSE LET station == vis[i] IN
         IF station.id \in processed
         THEN ClusterLoop(vis, i + 1, d, processed, clustered, singles)
         ELSE LET nearbyStations == NearbyStations(vis, station, processed, d) IN
              IF Len(nearbyStations) > 0
              THEN LET allStations == <<station>> \o nearbyStations IN
                   ClusterLoop(vis, i + 1, d,
                               processed \cup { s.id : s \in Range(allStations) },
                               Append(clustered, ClusterGroup(allStations)),
                               singles)
              ELSE ClusterLoop(vis, i + 1, d,
                               processed \cup {station.id},
                               clustered,
                               Append(singles, station))

\* the useMemo of lines 49-95
ComputeClusters(vis, z) ==
    IF ~ ShouldCluster(z)
    THEN [clusters |-> <<>>, singleStations |-> vis]
    ELSE ClusterLoop(vis, 1, ClusterDistance(z), {}, <<>>, <<>>)

-----------------------------------------------------------------------------
(* OptimizedMapContainer, Home and the server's response cache *)

DEBOUNCE_DELAY == 300          \* useDebounce(bounds, 300)
STALE_TIME == 120000           \* staleTime: 2 * 60 * 1000
CACHE_TTL == 300000            \* CACHE_TTL = 5 * 60 * 1000
MIN_ZOOM_FOR_STATIONS == 5     \* enabled: zoom > 5
DEFAULT_ZOOM == 6              \* useState(6)

MaxRefreshes == 1     \* number of refresh actions in a run

\* the initial viewport of the map, lines 56-61 (49.5, 41.3, 9.6, -5.2)
InitialBounds == [north |-> 4950, south |-> 4130, east |-> 960, west |-> -520]

\* a viewport over Paris
ParisBounds == [north |-> 4900, south |-> 4880, east |-> 240, west |-> 220]

\* the viewports the map reports in moveend/zoomend
MapBounds == {InitialBounds, ParisBounds}

\* the zoom levels the map reports
MapZooms == {5, 6}

\* time passes in short steps while a debounce timer is pending and in long
\* steps otherwise; the ages of cache entries are kept at the resolution of
\* the long steps
ShortSteps == {150}
LongSteps == {60000}

Min(a, b) == IF a < b THEN a ELSE b

\* the stations held by the store: the two sample stations of MemStorage
\* (48.8566, 2.3522) and (48.8738, 2.2950), and one far from them
StoreStations ==
    << [id |-> 1, lat |-> 4886, lon |-> 235],
       [id |-> 2, lat |-> 4887, lon |-> 230],
       [id |-> 3, lat |-> 4576, lon |-> 484] >>

\* MemStorage.getStationsInBounds, storage.ts 288-295
getStationsInBounds(b) == SelectSeq(StoreStations, LAMBDA station : InBounds(station, b))

---- (* the query cache of the client *)

NoQuery == [status |-> "pending", fetching |-> FALSE, hasData |-> FALSE,
            data |-> <<>>, age |-> 0, gen |-> 0]

Enabled_always(z) == TRUE

\* enabled: zoom > 5, line 84
Enabled(z) == z > MIN_ZOOM_FOR_STATIONS

IsStale_serverTtl(rec) == ~ rec.hasData \/ rec.age >= CACHE_TTL

\* a query is stale when it has no data or its data is staleTime old, line 85
IsStale(rec) == ~ rec.hasData \/ rec.age >= STALE_TIME

\* the query starts fetching; a query without data goes back to pending
StartFetch(rec) ==
    [rec EXCEPT !.fetching = TRUE,
                !.status = IF rec.hasData THEN rec.status ELSE "pending"]

\* the observer fetches when it turns to a query, or is enabled, that is
\* stale; a query that is already fetching is not fetched twice
FetchIfStale(qs, key, z) ==
    IF Enabled(z) /\ IsStale(qs[key])
    THEN [qs EXCEPT ![key] = StartFetch(qs[key])]
    ELSE qs

\* the key of the fetch that FetchIfStale starts, if it starts one
Issues(qs, key, z) == Enabled(z) /\ IsStale(qs[key]) /\ ~ qs[key].fetching

stations_lastArrived ==
    IF lastArrived # <<>> /\ q[lastArrived[1]].hasData
    THEN q[lastArrived[1]].data
    ELSE <<>>

\* const { data: stations = [] } = useQuery({ queryKey: [..., debouncedBounds] })
stations ==
    IF q[debouncedBounds].hasData THEN q[debouncedBounds].data ELSE <<>>

\* isLoading of the bounds query: no data yet and a fetch in flight
stationsLoading ==
    q[debouncedBounds].status = "pending" /\ q[debouncedBounds].fetching

\* isLoading of the all-stations query, passed down as the isLoading prop
allStationsLoading == qAll.status = "pending" /\ qAll.fetching

---- (* what the component renders, lines 134-209 *)

\* ms since the last moveend/zoomend, capped at the debounce delay: every
\* event restarts the timer, so the pending timer tells
quiet == IF timerActive THEN DEBOUNCE_DELAY - timerLeft ELSE DEBOUNCE_DELAY

\* the markers drawn by <StationCluster>, rendered only when zoom > 5
Markers(data) ==
    IF zoom > MIN_ZOOM_FOR_STATIONS
    THEN ComputeClusters(FilterVisible(data, bounds), zoom)
    ELSE [clusters |-> <<>>, singleStations |-> <<>>]

\* the indicator "Zoomez pour voir les stations", lines 201-207
ZoomIndicator == zoom <= MIN_ZOOM_FOR_STATIONS

\* everything the render shows for given query data and loading flag
UIViewOf(data, loading) ==
    [markers |-> Markers(data),
     loadingIndicator |-> allStationsLoading \/ loading,
     zoomIndicator |-> ZoomIndicator]

UIView == UIViewOf(stations, stationsLoading)

---- (* the server's response cache, routes.ts 9-22 *)

NoEntry == [has |-> FALSE, data |-> <<>>, age |-> 0, gen |-> 0]

getCachedData_noTtl(key) == cache[key].has

\* getCachedData: the entry is returned while younger than CACHE_TTL
getCachedData(key) == cache[key].has /\ cache[key].age < CACHE_TTL

\* setCachedData: the entry is stamped with Date.now(); gen records the
\* number of refresh actions started before the entry was computed
setCachedData(key, data) ==
    [cache EXCEPT ![key] = [has |-> TRUE, data |-> data, age |-> 0, gen |-> refreshes]]

\* const cacheKey = `bounds-${north}-${south}-${east}-${west}`, routes.ts 60
BoundsKey(b) == <<"bounds", b.north, b.south, b.east, b.west>>

\* const cacheKey = "all-stations", routes.ts 28
AllStationsKey == <<"all-stations">>

CacheKeys == { BoundsKey(b) : b \in MapBounds } \cup {AllStationsKey}

---- (* the other components before they are used *)

\* a price that is absent: null or undefined (prices are in thousandths of
\* a euro, 1.65 is 1650)
NULL == -1

IdlePrice ==
    /\ price = NULL
    /\ priceColor = ""
    /\ badgeVariant = ""

IdleMarker ==
    /\ markerStations = <<>>
    /\ cheapestStation = <<>>
    /\ clusterColor = ""

IdleList ==
    /\ listStations = <<>>
    /\ userLocation = <<>>
    /\ sortBy = "price"
    /\ sortOrder = "asc"
    /\ fuelFilter = "all"
    /\ filteredAndSortedStations = <<>>

IdleLoader ==
    /\ xmlFeed = <<>>
    /\ loadedStations = <<>>

IdleSearch ==
    /\ storageKind = "memory"
    /\ storedStations = <<>>
    /\ searchQuery = <<>>
    /\ searchResult = <<>>

\* the cache keys of the GET routes that the reload is run against:
\* "all-stations" and the bounds key of the viewport over Paris
ReloadKeys == {AllStationsKey, BoundsKey(ParisBounds)}

\* no GET handler is running for the key
NoRequest == [pc |-> "idle", data |-> <<>>]

IdleReload ==
    /\ reload = [pc |-> "idle", i |-> 1]
    /\ getReq = [k \in ReloadKeys |-> NoRequest]
    /\ response = [k \in ReloadKeys |-> [status |-> 0, body |-> <<>>]]

IdleRoute ==
    /\ request = <<>>
    /\ handledBy = ""

IdleHome == selectedStationId = NULL

IdleFav ==
    /\ favPc = "rendered"
    /\ favorites = <<>>
    /\ localStorage = [kind |-> "none", ids |-> <<>>]
    /\ saveOutcome = ""

IdleRest == IdleReload /\ IdleRoute /\ IdleHome /\ IdleFav

---- (* initial state: the page is mounted, both queries fetch *)

InitMapVars ==
    /\ bounds = InitialBounds
    /\ zoom = DEFAULT_ZOOM
    /\ debouncedBounds = InitialBounds
    /\ timerActive = FALSE
    /\ timerLeft = 0
    /\ q = [k \in MapBounds |->
              IF k = InitialBounds THEN StartFetch(NoQuery) ELSE NoQuery]
    /\ lastIssued = InitialBounds
    /\ lastArrived = <<>>
    /\ qAll = StartFetch(NoQuery)
    /\ refreshing = "no"
    /\ refreshes = 0
    /\ cache = [k \in CacheKeys |-> NoEntry]

InitClusterVars ==
    /\ props = [stations |-> <<>>, zoom |-> DEFAULT_ZOOM, bounds |-> InitialBounds]
    /\ pc = "mounted"
    /\ visibleStations = <<>>
    /\ clusters = <<>>
    /\ singleStations = <<>>
    /\ clickedMarker = <<>>
    /\ calls = <<>>

InitMap ==
    /\ InitMapVars
    /\ InitClusterVars
    /\ IdlePrice /\ IdleMarker /\ IdleList /\ IdleLoader /\ IdleSearch /\ IdleRest

---- (* actions *)

\* moveend / zoomend -> handleBoundsChange(newBounds, newZoom), lines 88-91;
\* the new bounds value restarts the debounce timer, and the render that
\* follows enables or disables the query with the new zoom
ViewportChange(b, z) ==
    /\ bounds' = b
    /\ zoom' = z
    /\ timerActive' = TRUE
    /\ timerLeft' = DEBOUNCE_DELAY
    /\ IF ~ Enabled(zoom)
       THEN /\ q' = FetchIfStale(q, debouncedBounds, z)
            /\ lastIssued' = IF Issues(q, debouncedBounds, z)
                             THEN debouncedBounds ELSE lastIssued
       ELSE UNCHANGED <<q, lastIssued>>
    /\ UNCHANGED <<debouncedBounds, lastArrived, qAll, refreshing, refreshes,
                   cache>>
    /\ UNCHANGED <<clusterVars, panelVars>>

\* time passes while the debounce timer is pending
TickShort(d) ==
    /\ timerActive
    /\ d <= timerLeft
    /\ timerLeft' = timerLeft - d
    /\ UNCHANGED <<bounds, zoom, debouncedBounds, timerActive, q, lastIssued,
                   lastArrived, qAll, refreshing, refreshes, cache>>
    /\ UNCHANGED <<clusterVars, panelVars>>

Older(rec, d) == [rec EXCEPT !.age = IF rec.hasData THEN Min(rec.age + d, CACHE_TTL) ELSE 0]

OlderEntry(e, d) == [e EXCEPT !.age = IF e.has THEN Min(e.age + d, CACHE_TTL) ELSE 0]

\* time passes while no debounce timer is pending
TickLong(d) ==
    /\ ~ timerActive
    /\ q' = [k \in MapBounds |-> Older(q[k], d)]
    /\ cache' = [k \in CacheKeys |-> OlderEntry(cache[k], d)]
    /\ q' # q \/ cache' # cache
    /\ UNCHANGED <<bounds, zoom, debouncedBounds, timerActive, timerLeft,
                   lastIssued, lastArrived, qAll, refreshing, refreshes>>
    /\ UNCHANGED <<clusterVars, panelVars>>

\* the debounce timer fires: setDebouncedValue(bounds); the query key
\* changes with it and the observer turns to the query of the new key
DebounceFire ==
    /\ timerActive
    /\ timerLeft = 0
    /\ timerActive' = FALSE
    /\ timerLeft' = 0
    /\ debouncedBounds' = bounds
    /\ IF bounds # debouncedBounds
       THEN /\ q' = FetchIfStale(q, bounds, zoom)
            /\ lastIssued' = IF Issues(q, bounds, zoom) THEN bounds ELSE lastIssued
       ELSE UNCHANGED <<q, lastIssued>>
    /\ UNCHANGED <<bounds, zoom, lastArrived, qAll, refreshing, refreshes, cache>>
    /\ UNCHANGED <<clusterVars, panelVars>>

\* GET /api/stations/bounds answers the fetch of key k, routes.ts 45-74, and
\* the query stores the result
BoundsFetchSucceed(k) ==
    /\ q[k].fetching
    /\ LET cacheKey == BoundsKey(k)
           hit == getCachedData(cacheKey)
           data == IF hit THEN cache[cacheKey].data ELSE getStationsInBounds(k)
           gen == IF hit THEN cache[cacheKey].gen ELSE refreshes
       IN /\ cache' = IF hit THEN cache ELSE setCachedData(cacheKey, data)
          /\ q' = [q EXCEPT ![k] = [status |-> "success", fetching |-> FALSE,
                                    hasData |-> TRUE, data |-> data,
                                    age |-> 0, gen |-> gen]]
    /\ lastArrived' = <<k>>
    /\ UNCHANGED <<bounds, zoom, debouncedBounds, timerActive, timerLeft,
                   lastIssued, qAll, refreshing, refreshes>>
    /\ UNCHANGED <<clusterVars, panelVars>>

\* the fetch of key k fails: network error, or !response.ok, lines 78-81
BoundsFetchFail(k) ==
    /\ q[k].fetching
    /\ q' = [q EXCEPT ![k] = [@ EXCEPT !.status = "error", !.fetching = FALSE]]
    /\ UNCHANGED <<bounds, zoom, debouncedBounds, timerActive, timerLeft,
                   lastIssued, lastArrived, qAll, refreshing, refreshes, cache>>
    /\ UNCHANGED <<clusterVars, panelVars>>

\* Home.handleRefresh: await refetch() of the all-stations query,
\* utils.ts 166-180; the button is disabled while allStationsLoading
HandleRefresh ==
    /\ ~ allStationsLoading
    /\ refreshing # "pending"
    /\ refreshes < MaxRefreshes
    /\ refreshing' = "pending"
    /\ refreshes' = refreshes + 1
    /\ qAll' = StartFetch(qAll)
    /\ UNCHANGED <<bounds, zoom, debouncedBounds, timerActive, timerLeft,
                   q, lastIssued, lastArrived, cache>>
    /\ UNCHANGED <<clusterVars, panelVars>>

\* GET /api/stations answers, routes.ts 26-42; refetch() resolves and
\* handleRefresh completes
AllFetchSucceed ==
    /\ qAll.fetching
    /\ LET hit == getCachedData(AllStationsKey)
           gen == IF hit THEN cache[AllStationsKey].gen ELSE refreshes
       IN /\ cache' = IF hit THEN cache ELSE setCachedData(AllStationsKey, StoreStations)
          /\ qAll' = [status |-> "success", fetching |-> FALSE, hasData |-> TRUE,
                      data |-> StoreStations, age |-> 0, gen |-> gen]
    /\ refreshing' = IF refreshing = "pending" THEN "done" ELSE refreshing
    /\ UNCHANGED <<bounds, zoom, debouncedBounds, timerActive, timerLeft,
                   q, lastIssued, lastArrived, refreshes>>
    /\ UNCHANGED <<clusterVars, panelVars>>

\* the all-stations fetch fails; refetch() resolves with the error
AllFetchFail ==
    /\ qAll.fetching
    /\ qAll' = [qAll EXCEPT !.status = "error", !.fetching = FALSE]
    /\ refreshing' = IF refreshing = "pending" THEN "failed" ELSE refreshing
    /\ UNCHANGED <<bounds, zoom, debouncedBounds, timerActive, timerLeft,
                   q, lastIssued, lastArrived, refreshes, cache>>
    /\ UNCHANGED <<clusterVars, panelVars>>

\* the map controller over time: viewport changes, the debounce timer, the
\* fetches and the ageing of the cached results
NextMap ==
    \/ \E b \in MapBounds, z \in MapZooms : ViewportChange(b, z)
    \/ \E d \in ShortSteps : TickShort(d)
    \/ \E d \in LongSteps : TickLong(d)
    \/ DebounceFire
    \/ \E k \in MapBounds : BoundsFetchSucceed(k)
    \/ \E k \in MapBounds : BoundsFetchFail(k)
    \/ AllFetchSucceed
    \/ AllFetchFail

SpecMap == InitMap /\ [][NextMap]_vars

\* the map controller and the refresh button, within the lifetime of the
\* cached results
NextRefresh ==
    \/ \E b \in MapBounds, z \in MapZooms : ViewportChange(b, z)
    \/ \E d \in ShortSteps : TickShort(d)
    \/ DebounceFire
    \/ \E k \in MapBounds : BoundsFetchSucceed(k)
    \/ \E k \in MapBounds : BoundsFetchFail(k)
    \/ HandleRefresh
    \/ AllFetchSucceed
    \/ AllFetchFail

SpecRefresh == InitMap /\ [][NextRefresh]_vars

-----------------------------------------------------------------------------
(* Properties of the map controller *)

\* a fetch of the bounds query k is issued in this step
IssuedInStep(k) == ~ q[k].fetching /\ q'[k].fetching

\* the bounds request of key k is answered from the server's cache in this step
AnsweredFromCache(k) ==
    /\ q[k].fetching
    /\ ~ q'[k].fetching
    /\ q'[k].status = "success"
    /\ cache' = cache

\* C4: a bounds fetch is issued only when no viewport change has occurred
\* for 300 ms, and it is issued for the bounds of the latest viewport change.
C4_FetchOnlyAfterQuiescence ==
    [][\A k \in MapBounds :
          IssuedInStep(k) => (quiet' >= 300 /\ k = bounds')]_vars

\* C5 as stated: the displayed stations are the result of the most recently
\* issued bounds fetch.
C5_LastIssuedWins ==
    stations # <<>> => stations = getStationsInBounds(lastIssued)

\* C5 as amended: the displayed stations are the result for the current
\* debounced bounds, or empty while these bounds have no result; a result
\* that arrived for other bounds is never displayed in their place.
C5_DisplayedIsForCurrentBounds ==
    /\ stations \in {<<>>, getStationsInBounds(debouncedBounds)}
    /\ q[debouncedBounds].hasData => stations = getStationsInBounds(debouncedBounds)

\* fetch A was issued before fetch B, B resolved and then A resolved, while
\* B's bounds are current: B's result is displayed
C5_Witness ==
    /\ lastArrived # <<>>
    /\ lastArrived[1] # debouncedBounds
    /\ lastIssued = debouncedBounds
    /\ q[debouncedBounds].hasData
    /\ q[lastArrived[1]].hasData
    /\ stations # q[lastArrived[1]].data

\* C6: displayed stations are not cleared while the current bounds have no
\* result (their fetch pending or failed); the last good set stays.
C6_StaleWhileRevalidate ==
    [][(zoom > 5 /\ zoom' > 5 /\ stations # <<>> /\ stations' = <<>>)
          => q'[debouncedBounds'].hasData]_vars

\* C7: after a failed bounds fetch, what the component renders differs from
\* what it renders after a fetch that succeeded with no stations.
C7_FailureVisible ==
    q[debouncedBounds].status = "error" => UIView # UIViewOf(<<>>, FALSE)

\* C8: at zoom <= 5 no bounds fetch is issued, no marker is rendered and
\* the zoom indicator is shown; at zoom > 5 the indicator is not shown.
C8_MinimumZoom ==
    /\ [](zoom <= 5 => /\ Markers(stations).clusters = <<>>
                       /\ Markers(stations).singleStations = <<>>
                       /\ ZoomIndicator)
    /\ [](zoom > 5 => ~ ZoomIndicator)
    /\ [][\A k \in MapBounds : IssuedInStep(k) => zoom' > 5]_vars

\* the map rests at zoom <= 5 on bounds that were never fetched, and no
\* fetch is in flight for them, while other bounds have a result
C8_Witness ==
    /\ zoom <= 5
    /\ ~ timerActive
    /\ ~ q[debouncedBounds].hasData
    /\ ~ q[debouncedBounds].fetching
    /\ q[debouncedBounds].status = "pending"
    /\ \E k \in MapBounds : q[k].hasData

C10_RefreshClearsCache ==
    refreshing = "done" =>
        /\ q[debouncedBounds].hasData => q[debouncedBounds].gen >= refreshes
        /\ qAll.hasData => qAll.gen >= refreshes

\* C23: every bounds fetch is requested for the bounds recorded by the most
\* recent viewport-change event before it; a viewport change that raises the
\* zoom from <= 5 to > 5 issues no fetch itself (no fetch for bounds recorded
\* before the event, none before 300 ms of quiescence have elapsed).
C23_FetchBoundsNeverOlder ==
    /\ [][\A k \in MapBounds : IssuedInStep(k) => k = bounds']_vars
    /\ [][(zoom <= MIN_ZOOM_FOR_STATIONS /\ zoom' > MIN_ZOOM_FOR_STATIONS)
            => \A k \in MapBounds : ~ IssuedInStep(k)]_vars

-----------------------------------------------------------------------------
(* StationCluster as a component: props in, memoised values out *)

\* station lists with pairwise distinct ids (the store is a Map keyed by id)
StationLists ==
    { S \in SeqsUpTo(StationIds \X Points, MaxStations) :
        \A i, j \in DOMAIN S : i # j => S[i][1] # S[j][1] }

MkStations(S) ==
    [i \in DOMAIN S |-> [id |-> S[i][1], lat |-> S[i][2][1], lon |-> S[i][2][2]]]

InitCluster ==
    /\ \E S \in StationLists, z \in ClusterZooms, b \in ClusterBounds :
          props = [stations |-> MkStations(S), zoom |-> z, bounds |-> b]
    /\ pc = "mounted"
    /\ visibleStations = <<>>
    /\ clusters = <<>>
    /\ singleStations = <<>>
    /\ clickedMarker = <<>>
    /\ calls = <<>>
    /\ InitMapVars
    /\ IdlePrice /\ IdleMarker /\ IdleList /\ IdleLoader /\ IdleSearch /\ IdleRest

\* one render of StationCluster with the current props
Render ==
    /\ pc = "mounted"
    /\ LET vis == FilterVisible(props.stations, props.bounds)
           res == ComputeClusters(vis, props.zoom)
       IN /\ visibleStations' = vis
          /\ clusters' = res.clusters
          /\ singleStations' = res.singleStations
    /\ pc' = "rendered"
    /\ UNCHANGED <<props, clickedMarker, calls>>
    /\ UNCHANGED <<mapVars, panelVars>>

\* the parent passes a new zoom and viewport; the memoised values are
\* recomputed in the same render
Rerender ==
    /\ pc = "rendered"
    /\ \E z \in ClusterZooms, b \in ClusterBounds :
          /\ <<z, b>> # <<props.zoom, props.bounds>>
          /\ props' = [props EXCEPT !.zoom = z, !.bounds = b]
          /\ LET vis == FilterVisible(props.stations, b)
                 res == ComputeClusters(vis, z)
             IN /\ visibleStations' = vis
                /\ clusters' = res.clusters
                /\ singleStations' = res.singleStations
    /\ clickedMarker' = <<>>
    /\ calls' = <<>>
    /\ UNCHANGED pc
    /\ UNCHANGED <<mapVars, panelVars>>

ClusterOnClick_lastMember(cluster) ==
    IF Len(cluster.stations) > 0
    THEN <<cluster.stations[Len(cluster.stations)].id>>
    ELSE <<>>

\* the onClick handed to a ClusterMarker, lines 106-112: the calls of
\* onStationClick that it makes
ClusterOnClick(cluster) ==
    IF Len(cluster.stations) > 0
    THEN <<cluster.stations[1].id>>
    ELSE <<>>

\* the user clicks the marker of cluster c
ClusterClick(c) ==
    /\ pc = "rendered"
    /\ c \in DOMAIN clusters
    /\ clickedMarker' = <<"cluster", c>>
    /\ calls' = ClusterOnClick(clusters[c])
    /\ UNCHANGED <<props, pc, visibleStations, clusters, singleStations>>
    /\ UNCHANGED <<mapVars, panelVars>>

\* the user clicks the marker of single station i, line 120
StationClick(i) ==
    /\ pc = "rendered"
    /\ i \in DOMAIN singleStations
    /\ clickedMarker' = <<"station", i>>
    /\ calls' = <<singleStations[i].id>>
    /\ UNCHANGED <<props, pc, visibleStations, clusters, singleStations>>
    /\ UNCHANGED <<mapVars, panelVars>>

NextCluster ==
    \/ Render
    \/ Rerender
    \/ \E c \in 1 .. MaxStations : ClusterClick(c)
    \/ \E i \in 1 .. MaxStations : StationClick(i)

SpecCluster == InitCluster /\ [][NextCluster]_vars

-----------------------------------------------------------------------------
(* Home: the selection and the details sheet, lib/utils.ts 119-294 *)

\* const { data: allStations = [] } = useQuery({ queryKey: ["/api/stations"] })
allStations == IF qAll.hasData THEN qAll.data ELSE <<>>

\* allStations.find(s => s.id === selectedStationId), lines 159-161:
\* <<station>> when found, <<>> for undefined or null
selectedStation ==
    IF selectedStationId = NULL
    THEN <<>>
    ELSE SelectSeq(allStations, LAMBDA s : s.id = selectedStationId)

\* the ids that a click on a marker of the map hands to onStationClick:
\* the id of a single station, or of the first member of a cluster
ClickableIds ==
    LET m == Markers(stations) IN
    { m.singleStations[i].id : i \in DOMAIN m.singleStations }
        \cup { ClusterOnClick(m.clusters[c])[1] : c \in DOMAIN m.clusters }

\* the user clicks a marker: onStationClick = setSelectedStationId
MarkerClick(id) ==
    /\ id \in ClickableIds
    /\ id # selectedStationId
    /\ selectedStationId' = id
    /\ UNCHANGED <<clusterVars, mapVars, priceVars, markerVars, listVars,
                   loaderVars, searchVars, restButHome>>

\* the user closes the details sheet: onClose, line 289
CloseDetails ==
    /\ selectedStation # <<>>
    /\ selectedStationId' = NULL
    /\ UNCHANGED <<clusterVars, mapVars, priceVars, markerVars, listVars,
                   loaderVars, searchVars, restButHome>>

\* the page: the map controller, the all-stations query, the refresh
\* button and the selection, within the lifetime of the cached results
NextHome ==
    \/ \E b \in MapBounds, z \in MapZooms : ViewportChange(b, z)
    \/ \E d \in ShortSteps : TickShort(d)
    \/ DebounceFire
    \/ \E k \in MapBounds : BoundsFetchSucceed(k)
    \/ \E k \in MapBounds : BoundsFetchFail(k)
    \/ HandleRefresh
    \/ AllFetchSucceed
    \/ AllFetchFail
    \/ \E id \in { StoreStations[i].id : i \in DOMAIN StoreStations } : MarkerClick(id)
    \/ CloseDetails

SpecHome == InitMap /\ [][NextHome]_vars

\* C28: a station selected by a click on a marker is shown by the details
\* sheet, and every station that a marker of the map selects is found in
\* the result of the all-stations query, also while that query is pending
\* or has failed.
C28_SelectionResolves ==
    /\ selectedStationId # NULL =>
          (selectedStation # <<>> /\ selectedStation[1].id = selectedStationId)
    /\ \A id \in ClickableIds :
          \E i \in DOMAIN allStations : allStations[i].id = id

-----------------------------------------------------------------------------
(* Properties of the clustering component *)

\* number of places in which station s is drawn: as a member of a cluster
\* or as a single marker
Occurrences(s) ==
    Cardinality({ ci \in { <<c, i>> : c \in DOMAIN clusters, i \in 1 .. MaxStations + 1 } :
                    /\ ci[2] \in DOMAIN clusters[ci[1]].stations
                    /\ clusters[ci[1]].stations[ci[2]] = s })
    + Cardinality({ i \in DOMAIN singleStations : singleStations[i] = s })

MemberCount == SumSeq([c \in DOMAIN clusters |-> Len(clusters[c].stations)])

\* C1: at zoom < 12, after a clustering pass every visible station is drawn
\* in exactly one place, and the cluster sizes plus the number of single
\* stations add up to the number of visible stations.
C1_ClusteringPartition ==
    (pc = "rendered" /\ props.zoom < 12) =>
        /\ \A s \in Range(visibleStations) : Occurrences(s) = 1
        /\ \A s \in Range(singleStations) \cup
                    UNION { Range(clusters[c].stations) : c \in DOMAIN clusters } :
              s \in Range(visibleStations)
        /\ MemberCount + Len(singleStations) = Len(visibleStations)

\* a pass at zoom < 12 that produced a cluster and a single station, with a
\* station that was skipped as already processed
C1_Witness ==
    /\ pc = "rendered"
    /\ props.zoom < 12
    /\ Len(visibleStations) = 3
    /\ Len(clusters) = 1
    /\ Len(singleStations) = 1
    /\ clusters[1].stations[1] = visibleStations[1]

\* C2: at zoom >= 12 the pass returns no cluster, and the single stations
\* are the visible stations in their input order.
C2_NoClusteringAtHighZoom ==
    (pc = "rendered" /\ props.zoom >= 12) =>
        /\ clusters = <<>>
        /\ singleStations = visibleStations

\* a pass at zoom 12 over stations that are close enough to be clustered at
\* every lower zoom
C2_Witness ==
    /\ pc = "rendered"
    /\ props.zoom = 12
    /\ Len(visibleStations) >= 2
    /\ \E i, j \in DOMAIN visibleStations :
          i # j /\ WithinDistance(visibleStations[i], visibleStations[j], 1)

\* indices of the stations of S that lie inside b, bounds included
IndicesInside(S, b) ==
    { i \in DOMAIN S :
        /\ b.south <= S[i].lat /\ S[i].lat <= b.north
        /\ b.west <= S[i].lon /\ S[i].lon <= b.east }

\* C3: the filtered list holds exactly the stations of the input that lie
\* inside the bounds (bounds included), in their input order, and the input
\* list is not modified.
C3_BoundsFilter ==
    /\ [](pc = "rendered" =>
            \E f \in [DOMAIN visibleStations -> IndicesInside(props.stations, props.bounds)] :
                /\ \A i \in DOMAIN visibleStations : visibleStations[i] = props.stations[f[i]]
                /\ \A i, j \in DOMAIN visibleStations : i < j => f[i] < f[j]
                /\ \A k \in IndicesInside(props.stations, props.bounds) :
                      \E i \in DOMAIN visibleStations : f[i] = k)
    /\ [][props'.stations = props.stations]_vars

\* a filter that kept a station lying on the edge of the bounds and dropped
\* another one
C3_Witness ==
    /\ pc = "rendered"
    /\ Len(visibleStations) >= 1
    /\ Len(visibleStations) < Len(props.stations)
    /\ \E i \in DOMAIN visibleStations :
          visibleStations[i].lat = props.bounds.south
          /\ visibleStations[i].lon = props.bounds.east

\* the place of station st in the visible stations (ids are distinct)
IndexInVisible(st) == CHOOSE i \in DOMAIN visibleStations : visibleStations[i].id = st.id

\* C13: clicking a cluster marker calls onStationClick exactly once, with
\* the id of the first member of the cluster, and that member comes before
\* every other member in the input order of the visible stations.
C13_ClusterClickSelectsSeed ==
    \A c \in DOMAIN clusters :
        clickedMarker = <<"cluster", c>> =>
            /\ calls = <<clusters[c].stations[1].id>>
            /\ \A m \in 2 .. Len(clusters[c].stations) :
                  IndexInVisible(clusters[c].stations[1])
                      < IndexInVisible(clusters[c].stations[m])

\* the marker of a cluster whose seed is not the first visible station has
\* been clicked
C13_Witness ==
    /\ pc = "rendered"
    /\ Len(clickedMarker) = 2
    /\ clickedMarker[1] = "cluster"
    /\ Len(calls) = 1
    /\ calls[1] # visibleStations[1].id
    /\ Len(clusters[clickedMarker[2]].stations) >= 2

\* the ids of the members of the clusters emitted before cluster k
EarlierMembers(k) ==
    UNION { { clusters[c].stations[m].id : m \in DOMAIN clusters[c].stations } :
              c \in 1 .. k - 1 }

\* squared planar distance, in squared hundredths of a degree
PlanarDistance2(a, b) ==
    (a.lat - b.lat) * (a.lat - b.lat) + (a.lon - b.lon) * (a.lon - b.lon)

\* the stations that are not yet assigned when the station at place i of
\* the visible stations is processed, and are within d of it
UnassignedNeighbours(i, d) ==
    SelectSeq(visibleStations, LAMBDA o :
        /\ IndexInVisible(o) > i
        /\ \A c \in DOMAIN clusters :
              IndexInVisible(clusters[c].stations[1]) < i
                  => o \notin Range(clusters[c].stations)
        /\ PlanarDistance2(visibleStations[i], o) <= d * d)

C20_NoSmallCluster ==
    pc = "rendered" =>
        /\ \A c \in DOMAIN clusters : Len(clusters[c].stations) >= 2
        /\ props.zoom < 12 =>
              LET d == IF props.zoom < 8 THEN 5 ELSE IF props.zoom < 10 THEN 2 ELSE 1 IN
              \A i \in DOMAIN visibleStations :
                  ( /\ \A c \in DOMAIN clusters, m \in 2 .. MaxStations + 1 :
                          m \in DOMAIN clusters[c].stations
                              => clusters[c].stations[m] # visibleStations[i]
                    /\ UnassignedNeighbours(i, d) = <<>> )
                  => /\ visibleStations[i] \in Range(singleStations)
                     /\ \A c \in DOMAIN clusters :
                           visibleStations[i] \notin Range(clusters[c].stations)

\* a pass that emitted a cluster and then a single station whose only
\* neighbour had already been taken by that cluster
C20_Witness ==
    /\ pc = "rendered"
    /\ props.zoom < 12
    /\ Len(clusters) = 1
    /\ Len(singleStations) = 1
    /\ IndexInVisible(singleStations[1]) = 3
    /\ \E m \in DOMAIN clusters[1].stations :
          PlanarDistance2(singleStations[1], clusters[1].stations[m])
              <= ClusterDistance(props.zoom) * ClusterDistance(props.zoom)

\* the latitudes and the longitudes of the members of a cluster
MemberLats(cluster) == [m \in DOMAIN cluster.stations |-> cluster.stations[m].lat]

MemberLons(cluster) == [m \in DOMAIN cluster.stations |-> cluster.stations[m].lon]

\* C21: the position of every cluster marker is the arithmetic mean of the
\* coordinates of its members: lat times the member count is the sum of the
\* members' lats, and lng times the member count is the sum of their lons.
C21_ClusterCentroid ==
    pc = "rendered" =>
        \A c \in DOMAIN clusters :
            LET n == Len(clusters[c].stations) IN
            /\ clusters[c].lat.den > 0
            /\ clusters[c].lng.den > 0
            /\ clusters[c].lat.num * n = SumSeq(MemberLats(clusters[c])) * clusters[c].lat.den
            /\ clusters[c].lng.num * n = SumSeq(MemberLons(clusters[c])) * clusters[c].lng.den

\* a cluster of three whose mean latitude is not a whole number of
\* hundredths and differs from the latitude of its seed
C21_Witness ==
    /\ pc = "rendered"
    /\ \E c \in DOMAIN clusters :
          /\ Len(clusters[c].stations) = 3
          /\ clusters[c].lat.num % clusters[c].lat.den # 0
          /\ clusters[c].lat.num # clusters[c].stations[1].lat * clusters[c].lat.den

\* C22: after a pass at zoom < 12 no two stations emitted as single
\* stations are within clusterDistance (planar distance) of each other.
C22_SinglesApart ==
    (pc = "rendered" /\ props.zoom < 12) =>
        LET d == IF props.zoom < 8 THEN 5 ELSE IF props.zoom < 10 THEN 2 ELSE 1 IN
        \A i, j \in DOMAIN singleStations :
            i # j => PlanarDistance2(singleStations[i], singleStations[j]) > d * d

\* a pass in the 0.02 band that emitted two single stations which the
\* 0.05 band would have clustered
C22_Witness ==
    /\ pc = "rendered"
    /\ props.zoom = 9
    /\ Len(singleStations) >= 2
    /\ PlanarDistance2(singleStations[1], singleStations[2]) <= 25

-----------------------------------------------------------------------------
(* Price tiers: lib/utils.ts and lib/constants.ts *)

PRICE_THRESHOLDS_LOW == 1650     \* PRICE_THRESHOLDS.LOW: 1.65
PRICE_THRESHOLDS_HIGH == 1800    \* PRICE_THRESHOLDS.HIGH: 1.80

MaxPrice == 1810      \* highest price handed to the price functions

\* the prices handed to the price functions
PriceInputs == {NULL} \cup (0 .. MaxPrice)

\* !x for x: number | null
Falsy(x) == x = NULL \/ x = 0

getPriceColor_inclusive(p) ==
    IF Falsy(p) THEN "text-gray-500"
    ELSE IF p <= PRICE_THRESHOLDS_LOW THEN "text-success"
    ELSE IF p >= PRICE_THRESHOLDS_HIGH THEN "text-error"
    ELSE "text-warning"

\* utils.ts 14-19
getPriceColor(p) ==
    IF Falsy(p) THEN "text-gray-500"
    ELSE IF p < PRICE_THRESHOLDS_LOW THEN "text-success"
    ELSE IF p > PRICE_THRESHOLDS_HIGH THEN "text-error"
    ELSE "text-warning"

\* utils.ts 21-26
getPriceBadgeVariant(p) ==
    IF Falsy(p) THEN "secondary"
    ELSE IF p < PRICE_THRESHOLDS_LOW THEN "default"
    ELSE IF p > PRICE_THRESHOLDS_HIGH THEN "destructive"
    ELSE "secondary"

InitPrice ==
    /\ price \in PriceInputs
    /\ priceColor = ""
    /\ badgeVariant = ""
    /\ InitMapVars
    /\ InitClusterVars
    /\ IdleMarker /\ IdleList /\ IdleLoader /\ IdleSearch /\ IdleRest

\* a caller colours the price
CallGetPriceColor ==
    /\ priceColor = ""
    /\ priceColor' = getPriceColor(price)
    /\ UNCHANGED <<price, badgeVariant>>
    /\ UNCHANGED <<clusterVars, mapVars, markerVars, listVars, loaderVars, searchVars, restVars>>

\* a caller picks the badge of the price
CallGetPriceBadgeVariant ==
    /\ badgeVariant = ""
    /\ badgeVariant' = getPriceBadgeVariant(price)
    /\ UNCHANGED <<price, priceColor>>
    /\ UNCHANGED <<clusterVars, mapVars, markerVars, listVars, loaderVars, searchVars, restVars>>

NextPrice == CallGetPriceColor \/ CallGetPriceBadgeVariant

SpecPrice == InitPrice /\ [][NextPrice]_vars

\* the tier that a colour class stands for
TierOfColor(c) ==
    CASE c = "text-success" -> "low"
      [] c = "text-error" -> "high"
      [] c = "text-warning" -> "mid"
      [] c = "text-gray-500" -> "unknown"

\* C11 as stated: the tier is low iff p < 1.65, high iff p > 1.80, mid iff
\* 1.65 <= p <= 1.80, and unknown iff the price is null or missing.
C11_PriceTiers ==
    priceColor # "" =>
        LET tier == TierOfColor(priceColor) IN
        /\ tier = "low" <=> (price # NULL /\ price < 1650)
        /\ tier = "high" <=> (price # NULL /\ price > 1800)
        /\ tier = "mid" <=> (price # NULL /\ 1650 <= price /\ price <= 1800)
        /\ tier = "unknown" <=> price = NULL

\* C11 as amended: a price of 0 is in the unknown tier like a null or
\* missing price; every other price is low iff p < 1.65, high iff p > 1.80
\* and mid iff 1.65 <= p <= 1.80, so 1.65 and 1.80 are mid, 1.649 is low and
\* 1.801 is high; the badge is "default" for low, "destructive" for high
\* and "secondary" for mid and unknown.
C11_PriceTiersZeroUnknown ==
    /\ priceColor # "" =>
          LET tier == TierOfColor(priceColor) IN
          /\ tier = "unknown" <=> (price = NULL \/ price = 0)
          /\ tier = "low" <=> (price # NULL /\ price # 0 /\ price < 1650)
          /\ tier = "high" <=> (price # NULL /\ price > 1800)
          /\ tier = "mid" <=> (price # NULL /\ 1650 <= price /\ price <= 1800)
          /\ price = 1650 => tier = "mid"
          /\ price = 1800 => tier = "mid"
          /\ price = 1649 => tier = "low"
          /\ price = 1801 => tier = "high"
    /\ (priceColor # "" /\ badgeVariant # "") =>
          LET tier == TierOfColor(priceColor) IN
          /\ badgeVariant = "default" <=> tier = "low"
          /\ badgeVariant = "destructive" <=> tier = "high"
          /\ badgeVariant = "secondary" <=> tier \in {"mid", "unknown"}

\* the price 1.65, on the boundary, has been coloured and badged
C11_Witness ==
    /\ price = 1650
    /\ priceColor = "text-warning"
    /\ badgeVariant = "secondary"

-----------------------------------------------------------------------------
(* ClusterMarker: the colour of a cluster marker *)

MaxMembers == 3       \* largest cluster handed to ClusterMarker

\* the diesel prices of the members
MarkerPrices == {NULL, 0, 1649, 1700, 1801}

\* the member lists: StationCluster hands over the seed and at least one
\* neighbour; the marker does not read the ids, they number the members
MemberLists ==
    UNION { [1 .. n -> MarkerPrices] : n \in 2 .. MaxMembers }

MkMembers(P) == [i \in DOMAIN P |-> [id |-> i, prixGazole |-> P[i]]]

CheaperOf_lastWins(cheapest, station) ==
    IF Falsy(station.prixGazole) THEN cheapest
    ELSE IF Falsy(cheapest.prixGazole) THEN station
    ELSE IF station.prixGazole <= cheapest.prixGazole THEN station ELSE cheapest

\* the callback of the reduce, lines 470-474
CheaperOf(cheapest, station) ==
    IF Falsy(station.prixGazole) THEN cheapest
    ELSE IF Falsy(cheapest.prixGazole) THEN station
    ELSE IF station.prixGazole < cheapest.prixGazole THEN station ELSE cheapest

\* stations.reduce(callback, stations[0]), from index i on
RECURSIVE ReduceCheapest(_, _, _)
ReduceCheapest(members, i, cheapest) ==
    IF i > Len(members)
    THEN cheapest
    ELSE ReduceCheapest(members, i + 1, CheaperOf(cheapest, members[i]))

\* getClusterColor, lines 476-481
getClusterColor(p) ==
    IF Falsy(p) THEN "#6b7280"
    ELSE IF p < 1650 THEN "#10b981"
    ELSE IF p > 1800 THEN "#ef4444"
    ELSE "#f59e0b"

InitMarker ==
    /\ \E P \in MemberLists : markerStations = MkMembers(P)
    /\ cheapestStation = <<>>
    /\ clusterColor = ""
    /\ InitMapVars
    /\ InitClusterVars
    /\ IdlePrice /\ IdleList /\ IdleLoader /\ IdleSearch /\ IdleRest

\* one render of ClusterMarker, lines 468-484
RenderMarker ==
    /\ clusterColor = ""
    /\ LET cheapest == ReduceCheapest(markerStations, 1, markerStations[1])
       IN /\ cheapestStation' = <<cheapest>>
          /\ clusterColor' = getClusterColor(cheapest.prixGazole)
    /\ UNCHANGED markerStations
    /\ UNCHANGED <<clusterVars, mapVars, priceVars, listVars, loaderVars, searchVars, restVars>>

\* the parent renders the marker for another cluster
NewMembers ==
    /\ clusterColor # ""
    /\ \E P \in MemberLists :
          /\ MkMembers(P) # markerStations
          /\ markerStations' = MkMembers(P)
          /\ LET cheapest == ReduceCheapest(MkMembers(P), 1, MkMembers(P)[1])
             IN /\ cheapestStation' = <<cheapest>>
                /\ clusterColor' = getClusterColor(cheapest.prixGazole)
    /\ UNCHANGED <<clusterVars, mapVars, priceVars, listVars, loaderVars, searchVars, restVars>>

NextMarker == RenderMarker \/ NewMembers

SpecMarker == InitMarker /\ [][NextMarker]_vars

\* the colour of a tier
ColorOfTier(p) ==
    IF p < 1650 THEN "#10b981" ELSE IF p > 1800 THEN "#ef4444" ELSE "#f59e0b"

\* the representative of the members whose price is in Priced: the first
\* member, in member order, that carries the least of these prices
IsFirstCheapest(st, Priced) ==
    \E i \in Priced :
        /\ st = markerStations[i]
        /\ \A j \in Priced : markerStations[i].prixGazole <= markerStations[j].prixGazole
        /\ \A j \in Priced :
              markerStations[j].prixGazole = markerStations[i].prixGazole => i <= j

-----------------------------------------------------------------------------
(* StationListPanel: the filtered and sorted list *)

MaxListed == 3        \* longest station list handed to the panel

SortBys == {"price", "distance", "name"}

FuelTypes == {"all", "gazole", "sp95", "sp98", "e10", "e85", "gplc"}

\* the entries of the fuel select that the user picks
SelectedFuels == {"all", "gazole", "sp95"}

\* the user location when there is one, in hundredths of a degree
Here == [lat |-> 4886, lon |-> 235]

UserLocations == {<<>>, <<Here>>}

\* name and place of the listed stations: one at the user location, one
\* at (48.87, 2.30)
Sites == { [nom |-> "Agip", lat |-> 4886, lon |-> 235],
           [nom |-> "Total", lat |-> 4887, lon |-> 230] }

\* the diesel and SP95 prices of the listed stations: without diesel, with
\* diesel at 0, and two whose diesel and SP95 prices order them differently
ListPrices ==
    { [prixGazole |-> NULL, prixSP95 |-> 1700],
      [prixGazole |-> 0,    prixSP95 |-> NULL],
      [prixGazole |-> 1649, prixSP95 |-> 1750],
      [prixGazole |-> 1800, prixSP95 |-> 1700] }

\* the station lists handed to the panel; the id of a station is its place
\* in the list
ListedStations ==
    UNION { [1 .. n -> Sites \X ListPrices] : n \in 0 .. MaxListed }

MkListed(L) ==
    [i \in DOMAIN L |->
        [id |-> i, nom |-> L[i][1].nom, lat |-> L[i][1].lat, lon |-> L[i][1].lon,
         prixGazole |-> L[i][2].prixGazole, prixSP95 |-> L[i][2].prixSP95,
         prixSP98 |-> NULL, prixE10 |-> NULL, prixE85 |-> NULL, prixGPLc |-> NULL]]

\* calculateDistance (Haversine), lines 38-48, in metres over the places
\* of the model: (48.86, 2.35) to (48.87, 2.30) is 3.823 km
calculateDistance(lat1, lon1, lat2, lon2) ==
    IF lat1 = lat2 /\ lon1 = lon2 THEN 0 ELSE 3823

\* stations.map(station => ({...station, distance})), lines 52-57
WithDistance(st, loc) ==
    [id |-> st.id, nom |-> st.nom, lat |-> st.lat, lon |-> st.lon,
     prixGazole |-> st.prixGazole, prixSP95 |-> st.prixSP95,
     prixSP98 |-> st.prixSP98, prixE10 |-> st.prixE10,
     prixE85 |-> st.prixE85, prixGPLc |-> st.prixGPLc,
     distance |-> IF loc # <<>>
                  THEN calculateDistance(loc[1].lat, loc[1].lon, st.lat, st.lon)
                  ELSE NULL]

\* lines 102-112
getPriceForFuelType(station, fuelType) ==
    CASE fuelType = "gazole" -> station.prixGazole
      [] fuelType = "sp95" -> station.prixSP95
      [] fuelType = "sp98" -> station.prixSP98
      [] fuelType = "e10" -> station.prixE10
      [] fuelType = "e85" -> station.prixE85
      [] fuelType = "gplc" -> station.prixGPLc
      [] OTHER -> station.prixGazole

PassesFuelFilter_truthy(station, ff) ==
    ff # "all" => ~ Falsy(getPriceForFuelType(station, ff))

\* the filter of lines 60-65: price !== null && price !== undefined
PassesFuelFilter(station, ff) ==
    ff # "all" => getPriceForFuelType(station, ff) # NULL

OrSentinel_zero(p) == IF Falsy(p) THEN 0 ELSE p

\* (price || 999), in thousandths of a euro
OrSentinel(p) == IF Falsy(p) THEN 999000 ELSE p

\* a.nom.localeCompare(b.nom) over the names of the model
localeCompare(a, b) ==
    LET rank(n) == IF n = "Agip" THEN 1 ELSE 2 IN rank(a) - rank(b)

\* the price compared by the sort, lines 72-73
SortPrice(st, ff) ==
    IF ff = "all" THEN OrSentinel(st.prixGazole)
    ELSE OrSentinel(getPriceForFuelType(st, ff))

Compare_distanceFallsBackToPrice(a, b, sb, so, ff) ==
    LET comparison ==
            IF sb = "price" \/ (sb = "distance" /\ (Falsy(a.distance) \/ Falsy(b.distance)))
            THEN SortPrice(a, ff) - SortPrice(b, ff)
            ELSE IF sb = "distance" THEN a.distance - b.distance
            ELSE localeCompare(a.nom, b.nom)
    IN IF so = "asc" THEN comparison ELSE 0 - comparison

\* the comparator of lines 67-86
Compare(a, b, sb, so, ff) ==
    IF sb = "distance" /\ (Falsy(a.distance) \/ Falsy(b.distance))
    THEN 0
    ELSE LET comparison ==
                 IF sb = "price" THEN SortPrice(a, ff) - SortPrice(b, ff)
                 ELSE IF sb = "distance" THEN a.distance - b.distance
                 ELSE localeCompare(a.nom, b.nom)
         IN IF so = "asc" THEN comparison ELSE 0 - comparison

\* Array.prototype.sort is stable: x goes behind the elements that do not
\* compare greater than it
RECURSIVE InsertStation(_, _, _, _, _)
InsertStation(sorted, x, sb, so, ff) ==
    IF sorted = <<>>
    THEN <<x>>
    ELSE LET last == sorted[Len(sorted)] IN
         IF Compare(last, x, sb, so, ff) > 0
         THEN Append(InsertStation(SubSeq(sorted, 1, Len(sorted) - 1), x, sb, so, ff), last)
         ELSE Append(sorted, x)

\* stationsWithDistance.sort(comparator), line 67
RECURSIVE SortStations(_, _, _, _)
SortStations(S, sb, so, ff) ==
    IF S = <<>>
    THEN <<>>
    ELSE InsertStation(SortStations(SubSeq(S, 1, Len(S) - 1), sb, so, ff),
                       S[Len(S)], sb, so, ff)

\* the useMemo of lines 51-87
FilterAndSort(S, sb, so, loc, ff) ==
    LET stationsWithDistance == [i \in DOMAIN S |-> WithDistance(S[i], loc)]
        filtered == SelectSeq(stationsWithDistance,
                              LAMBDA station : PassesFuelFilter(station, ff))
    IN SortStations(filtered, sb, so, ff)

InitList ==
    /\ \E L \in ListedStations : listStations = MkListed(L)
    /\ userLocation \in UserLocations
    /\ sortBy = "price"
    /\ sortOrder = "asc"
    /\ fuelFilter = "all"
    /\ filteredAndSortedStations =
          FilterAndSort(listStations, "price", "asc", userLocation, "all")
    /\ InitMapVars
    /\ InitClusterVars
    /\ IdlePrice /\ IdleMarker /\ IdleLoader /\ IdleSearch /\ IdleRest

handleSort_keepsOrder(newSortBy) ==
    /\ newSortBy = "distance" => userLocation # <<>>
    /\ IF sortBy = newSortBy
       THEN /\ sortOrder' = IF sortOrder = "asc" THEN "desc" ELSE "asc"
            /\ UNCHANGED sortBy
       ELSE /\ sortBy' = newSortBy
            /\ UNCHANGED sortOrder
    /\ filteredAndSortedStations' =
          FilterAndSort(listStations, sortBy', sortOrder', userLocation, fuelFilter)
    /\ UNCHANGED <<listStations, userLocation, fuelFilter>>
    /\ UNCHANGED <<clusterVars, mapVars, priceVars, markerVars, loaderVars, searchVars, restVars>>

\* lines 89-96, and the render that follows; the distance button is
\* rendered only with a user location, line 306
handleSort(newSortBy) ==
    /\ newSortBy = "distance" => userLocation # <<>>
    /\ IF sortBy = newSortBy
       THEN /\ sortOrder' = IF sortOrder = "asc" THEN "desc" ELSE "asc"
            /\ UNCHANGED sortBy
       ELSE /\ sortBy' = newSortBy
            /\ sortOrder' = "asc"
    /\ filteredAndSortedStations' =
          FilterAndSort(listStations, sortBy', sortOrder', userLocation, fuelFilter)
    /\ UNCHANGED <<listStations, userLocation, fuelFilter>>
    /\ UNCHANGED <<clusterVars, mapVars, priceVars, markerVars, loaderVars, searchVars, restVars>>

\* the fuel select: setFuelFilter(value), and the render that follows
setFuelFilter(value) ==
    /\ value # fuelFilter
    /\ fuelFilter' = value
    /\ filteredAndSortedStations' =
          FilterAndSort(listStations, sortBy, sortOrder, userLocation, value)
    /\ UNCHANGED <<listStations, userLocation, sortBy, sortOrder>>
    /\ UNCHANGED <<clusterVars, mapVars, priceVars, markerVars, loaderVars, searchVars, restVars>>

\* the parent renders the panel with another userLocation: the position
\* became known, or is no longer known
LocationChange(loc) ==
    /\ loc # userLocation
    /\ userLocation' = loc
    /\ filteredAndSortedStations' =
          FilterAndSort(listStations, sortBy, sortOrder, loc, fuelFilter)
    /\ UNCHANGED <<listStations, sortBy, sortOrder, fuelFilter>>
    /\ UNCHANGED <<clusterVars, mapVars, priceVars, markerVars, loaderVars, searchVars, restVars>>

NextList ==
    \/ \E k \in SortBys : handleSort(k)
    \/ \E f \in SelectedFuels : setFuelFilter(f)
    \/ \E loc \in UserLocations : LocationChange(loc)

SpecList == InitList /\ [][NextList]_vars

-----------------------------------------------------------------------------
(* Properties of the station list panel *)

\* the price of a listed station for the selected fuel, diesel under "all"
ShownPrice(st) ==
    IF fuelFilter = "gazole" \/ fuelFilter = "all" THEN st.prixGazole
    ELSE IF fuelFilter = "sp95" THEN st.prixSP95
    ELSE IF fuelFilter = "sp98" THEN st.prixSP98
    ELSE IF fuelFilter = "e10" THEN st.prixE10
    ELSE IF fuelFilter = "e85" THEN st.prixE85
    ELSE st.prixGPLc

\* the station handed to the panel that a presented entry stands for
ListedAs(entry) == listStations[entry.id]

\* the presented entry is the input station, with a distance added
SameStation(entry) ==
    /\ entry.id \in DOMAIN listStations
    /\ \A f \in {"nom", "lat", "lon", "prixGazole", "prixSP95", "prixSP98",
                  "prixE10", "prixE85", "prixGPLc"} : entry[f] = ListedAs(entry)[f]

\* the ids of the presented sequence, in order
PresentedIds == [i \in DOMAIN filteredAndSortedStations |-> filteredAndSortedStations[i].id]

\* C14 as stated: under sortBy = price, order = asc, every station that has
\* a price for the selected fuel (diesel under "all") comes before every
\* station that has none, and the priced stations are in non-decreasing
\* price order.
C14_PriceSort ==
    (sortBy = "price" /\ sortOrder = "asc") =>
        \A i, j \in DOMAIN filteredAndSortedStations :
            i < j =>
                LET pi == ShownPrice(filteredAndSortedStations[i])
                    pj == ShownPrice(filteredAndSortedStations[j])
                IN /\ ~ (pi = NULL /\ pj # NULL)
                   /\ (pi # NULL /\ pj # NULL) => pi <= pj

\* C14 as amended: the sort key is the price for the selected fuel (diesel
\* under "all"), with 999 in place of a price that is null, missing or 0;
\* the presented sequence is in non-decreasing order of that key, so every
\* station with a nonzero price (below 999) comes before every station whose
\* price is null, missing or 0, and the former are in non-decreasing price
\* order.
C14_PriceSortZeroLast ==
    (sortBy = "price" /\ sortOrder = "asc") =>
        \A i, j \in DOMAIN filteredAndSortedStations :
            i < j =>
                LET pi == ShownPrice(filteredAndSortedStations[i])
                    pj == ShownPrice(filteredAndSortedStations[j])
                    ki == IF pi = NULL \/ pi = 0 THEN 999000 ELSE pi
                    kj == IF pj = NULL \/ pj = 0 THEN 999000 ELSE pj
                IN /\ ki <= kj
                   /\ ~ ((pi = NULL \/ pi = 0) /\ ~ (pj = NULL \/ pj = 0))
                   /\ (~ (pi = NULL \/ pi = 0) /\ ~ (pj = NULL \/ pj = 0)) => pi <= pj

\* three stations handed over with the diesel prices (0, 1.800, 1.649) and
\* presented under the diesel filter by ascending price as (1.649, 1.800, 0)
C14_Witness ==
    /\ sortBy = "price"
    /\ sortOrder = "asc"
    /\ fuelFilter = "gazole"
    /\ Len(listStations) = 3
    /\ listStations[1].prixGazole = 0
    /\ listStations[2].prixGazole = 1800
    /\ listStations[3].prixGazole = 1649
    /\ PresentedIds = <<3, 2, 1>>

\* C15: under a specific fuel the presented sequence holds exactly the
\* input stations with a non-null price for that fuel, each once; under
\* "all" it is a permutation of the input.
C15_FuelFilter ==
    /\ \A i \in DOMAIN filteredAndSortedStations :
          SameStation(filteredAndSortedStations[i])
    /\ \A i, j \in DOMAIN filteredAndSortedStations :
          i # j => filteredAndSortedStations[i].id # filteredAndSortedStations[j].id
    /\ \A k \in DOMAIN listStations :
          (k \in Range(PresentedIds))
              <=> (fuelFilter = "all" \/ ShownPrice(listStations[k]) # NULL)

\* under the diesel filter a station priced 0 is presented and a station
\* without a diesel price is not
C15_Witness ==
    /\ fuelFilter = "gazole"
    /\ \E i \in DOMAIN filteredAndSortedStations :
          filteredAndSortedStations[i].prixGazole = 0
    /\ \E k \in DOMAIN listStations :
          listStations[k].prixGazole = NULL /\ k \notin Range(PresentedIds)
    /\ Len(filteredAndSortedStations) >= 2

\* C16: under sortBy = distance without a user location, the presented
\* sequence is the fuel-filtered input in its input order, in both sort
\* orders.
C16_NoLocationKeepsOrder ==
    (sortBy = "distance" /\ userLocation = <<>>) =>
        /\ \A i \in DOMAIN filteredAndSortedStations :
              /\ SameStation(filteredAndSortedStations[i])
              /\ filteredAndSortedStations[i].distance = NULL
        /\ \A i, j \in DOMAIN filteredAndSortedStations :
              i < j => filteredAndSortedStations[i].id < filteredAndSortedStations[j].id
        /\ \A k \in DOMAIN listStations :
              (k \in Range(PresentedIds))
                  <=> (fuelFilter = "all" \/ ShownPrice(listStations[k]) # NULL)

\* by distance, descending, without a location: three stations that the
\* price sort would reorder are presented in input order
C16_Witness ==
    /\ sortBy = "distance"
    /\ sortOrder = "desc"
    /\ userLocation = <<>>
    /\ PresentedIds = <<1, 2, 3>>
    /\ listStations[1].prixGazole = 1800
    /\ listStations[2].prixGazole = 1649
    /\ listStations[3].prixGazole = NULL

\* C27: with sortBy = distance and a user location present, the presented
\* sequence is non-decreasing in distance under asc and non-increasing under
\* desc, also when some station is at distance exactly 0 from the user.
C27_DistanceSortOrdered ==
    (sortBy = "distance" /\ userLocation # <<>>) =>
        \A i, j \in DOMAIN filteredAndSortedStations :
            i < j =>
                LET di == calculateDistance(userLocation[1].lat, userLocation[1].lon,
                                            filteredAndSortedStations[i].lat,
                                            filteredAndSortedStations[i].lon)
                    dj == calculateDistance(userLocation[1].lat, userLocation[1].lon,
                                            filteredAndSortedStations[j].lat,
                                            filteredAndSortedStations[j].lon)
                IN IF sortOrder = "asc" THEN di <= dj ELSE di >= dj

\* C29: handleSort(k) with k = sortBy flips sortOrder and leaves sortBy; with
\* k # sortBy it sets sortBy to k and sortOrder to asc; handleSort never
\* changes fuelFilter, and changing fuelFilter never changes sortBy or
\* sortOrder.
C29_SortStateTransitions ==
    /\ [][\A k \in SortBys :
            handleSort(k) =>
                /\ IF k = sortBy
                   THEN /\ sortBy' = sortBy
                        /\ sortOrder' = (IF sortOrder = "asc" THEN "desc" ELSE "asc")
                   ELSE /\ sortBy' = k
                        /\ sortOrder' = "asc"
                /\ fuelFilter' = fuelFilter]_vars
    /\ [][fuelFilter' # fuelFilter => (sortBy' = sortBy /\ sortOrder' = sortOrder)]_vars
    /\ [][(sortBy' # sortBy \/ sortOrder' # sortOrder) => fuelFilter' = fuelFilter]_vars

\* the list is sorted by name in descending order under the SP95 filter:
\* handleSort has changed the key, then flipped the order, and the fuel
\* filter was changed
C29_Witness ==
    /\ sortBy = "name"
    /\ sortOrder = "desc"
    /\ fuelFilter = "sp95"
    /\ Len(listStations) >= 2

-----------------------------------------------------------------------------
(* XMLStationLoader and POST /api/stations/load-xml *)

MaxFeed == 2          \* largest number of pdv entries in the feed

\* the result of parseFloat on a text that does not start with a number
NaN == -999999999

\* the latitude attributes of the entries: a decimal degree, the north pole,
\* a value in the 1/100000 degree of the published feed, and no number
LatitudeTexts == {"48.86", "90", "4885660", "abc"}

\* the longitude attributes: a decimal degree, the date line, a value past
\* it, and an empty attribute
LongitudeTexts == {"2.35", "-180", "181", ""}

\* parseFloat over the texts of the model, in hundredths of a degree
parseFloat(text) ==
    CASE text = "48.86" -> 4886
      [] text = "90" -> 9000
      [] text = "4885660" -> 488566000
      [] text = "2.35" -> 235
      [] text = "-180" -> -18000
      [] text = "181" -> 18100
      [] OTHER -> NaN

isNaN(x) == x = NaN

\* the parsed feeds: the id of an entry is its place in the feed
Feeds ==
    UNION { [1 .. n -> LatitudeTexts \X LongitudeTexts] : n \in 0 .. MaxFeed }

MkFeed(F) ==
    [i \in DOMAIN F |-> [id |-> i, latitude |-> F[i][1], longitude |-> F[i][2]]]

\* convertXMLToStation, lines 293-347: <<>> for null, <<station>> otherwise
convertXMLToStation(xmlStation) ==
    LET lat == parseFloat(xmlStation.latitude)
        lon == parseFloat(xmlStation.longitude)
    IN IF isNaN(lat) \/ isNaN(lon)
       THEN <<>>
       ELSE << [id |-> xmlStation.id, lat |-> lat, lon |-> lon] >>

\* parseXMLData, lines 264-291: the loop over result.pdv_liste.pdv
RECURSIVE parseXMLData(_)
parseXMLData(pdv) ==
    IF pdv = <<>>
    THEN <<>>
    ELSE convertXMLToStation(Head(pdv)) \o parseXMLData(Tail(pdv))

InitLoader ==
    /\ \E F \in Feeds : xmlFeed = MkFeed(F)
    /\ loadedStations = <<>>
    /\ storageKind = "memory"
    /\ storedStations = <<>>
    /\ searchQuery = <<>>
    /\ searchResult = <<>>
    /\ InitMapVars
    /\ InitClusterVars
    /\ IdlePrice /\ IdleMarker /\ IdleList /\ IdleRest

\* POST /api/stations/load-xml, routes.ts 206-235: the stations of the feed
\* replace the stations of the storage
LoadXml ==
    /\ loadedStations = <<>>
    /\ LET xmlStations == parseXMLData(xmlFeed)
       IN /\ loadedStations' = <<xmlStations>>
          /\ storedStations' = xmlStations
    /\ UNCHANGED <<xmlFeed, storageKind, searchQuery, searchResult>>
    /\ UNCHANGED <<clusterVars, mapVars, priceVars, markerVars, listVars, restVars>>

NextLoader == LoadXml

SpecLoader == InitLoader /\ [][NextLoader]_vars

\* C17: every station that the ingestion emits, and that is then stored,
\* has lat in [-90, 90] and lon in [-180, 180]; an entry whose coordinates
\* are NaN or outside these ranges is excluded.
C17_CoordinatesInRange ==
    loadedStations # <<>> =>
        /\ \A st \in Range(loadedStations[1]) \cup Range(storedStations) :
              /\ -9000 <= st.lat /\ st.lat <= 9000
              /\ -18000 <= st.lon /\ st.lon <= 18000
        /\ \A i \in DOMAIN xmlFeed :
              (\E st \in Range(loadedStations[1]) : st.id = xmlFeed[i].id)
                  <=> /\ xmlFeed[i].latitude \in {"48.86", "90"}
                      /\ xmlFeed[i].longitude \in {"2.35", "-180"}

-----------------------------------------------------------------------------
(* storage.searchStations: DatabaseStorage and MemStorage *)

MaxStored == 2        \* largest number of stations held by the storage

\* texts are sequences of characters
StationNames == { <<"A", "b">>, <<"b">> }

StationCities == { <<"a">>, <<"b", "a">> }

StationAddresses == { <<"a", "b">>, <<"B">> }

StoredPrices == {1649, 1800}

\* the queries of the search requests (the route refuses a blank query,
\* routes.ts 119-121)
Queries == { <<"a">>, <<"A", "B">>, <<"b">>, <<"_">> }

\* the contents of the storage; the id of a station is its place
StoredLists ==
    UNION { [1 .. n -> StationNames \X StationCities \X StationAddresses \X StoredPrices] :
              n \in 0 .. MaxStored }

MkStored(L) ==
    [i \in DOMAIN L |->
        [id |-> i, nom |-> L[i][1], ville |-> L[i][2], adresse |-> L[i][3],
         prixGazole |-> L[i][4]]]

\* String.prototype.toLowerCase, and the case folding of ILIKE
LowerChar(c) == IF c = "A" THEN "a" ELSE IF c = "B" THEN "b" ELSE c

toLowerCase(text) == [i \in DOMAIN text |-> LowerChar(text[i])]

\* String.prototype.includes
includes(text, part) ==
    \E i \in 1 .. Len(text) + 1 :
        /\ i + Len(part) - 1 <= Len(text)
        /\ SubSeq(text, i, i + Len(part) - 1) = part

\* text ILIKE pattern: % matches any run of characters, _ any one character
RECURSIVE ilike(_, _)
ilike(text, pattern) ==
    IF pattern = <<>>
    THEN text = <<>>
    ELSE IF Head(pattern) = "%"
         THEN ilike(text, Tail(pattern))
              \/ (text # <<>> /\ ilike(Tail(text), pattern))
         ELSE /\ text # <<>>
              /\ (Head(pattern) = "_" \/ LowerChar(Head(pattern)) = LowerChar(Head(text)))
              /\ ilike(Tail(text), Tail(pattern))

\* the rows that DatabaseStorage.searchStations selects, storage.ts 103-113
DatabaseMatches(S, query) ==
    LET searchTerm == <<"%">> \o toLowerCase(query) \o <<"%">> IN
    SelectSeq(S, LAMBDA st :
        /\ ilike(st.nom, searchTerm)
        /\ ilike(st.ville, searchTerm)
        /\ ilike(st.adresse, searchTerm))

\* the orders in which the database may return rows: by ascending
\* prixGazole, rows of equal price in any order, storage.ts 114
OrderedByPrice(rows) ==
    { r \in [1 .. Len(rows) -> Range(rows)] :
        /\ \A st \in Range(rows) : \E i \in DOMAIN r : r[i] = st
        /\ \A i, j \in DOMAIN r : i < j => r[i].prixGazole <= r[j].prixGazole }

\* MemStorage.searchStations, storage.ts 272-280
MemSearchStations(S, query) ==
    LET lowerQuery == toLowerCase(query) IN
    SelectSeq(S, LAMBDA station :
        \/ includes(toLowerCase(station.nom), lowerQuery)
        \/ includes(toLowerCase(station.ville), lowerQuery)
        \/ includes(toLowerCase(station.adresse), lowerQuery))

InitSearch ==
    /\ storageKind \in {"database", "memory"}
    /\ \E L \in StoredLists : storedStations = MkStored(L)
    /\ searchQuery \in Queries
    /\ searchResult = <<>>
    /\ InitMapVars
    /\ InitClusterVars
    /\ IdlePrice /\ IdleMarker /\ IdleList /\ IdleLoader /\ IdleRest

\* storage.searchStations(query) on the database-backed storage
DatabaseSearch ==
    /\ storageKind = "database"
    /\ searchResult = <<>>
    /\ \E rows \in OrderedByPrice(DatabaseMatches(storedStations, searchQuery)) :
          searchResult' = <<rows>>
    /\ UNCHANGED <<storageKind, storedStations, searchQuery>>
    /\ UNCHANGED <<clusterVars, mapVars, priceVars, markerVars, listVars, loaderVars, restVars>>

\* storage.searchStations(query) on the in-memory storage
MemSearch ==
    /\ storageKind = "memory"
    /\ searchResult = <<>>
    /\ searchResult' = << MemSearchStations(storedStations, searchQuery) >>
    /\ UNCHANGED <<storageKind, storedStations, searchQuery>>
    /\ UNCHANGED <<clusterVars, mapVars, priceVars, markerVars, listVars, loaderVars, restVars>>

NextSearch == DatabaseSearch \/ MemSearch

SpecSearch == InitSearch /\ [][NextSearch]_vars

\* text contains part, letters compared without case
ContainsNoCase(text, part) ==
    \E i \in 1 .. Len(text) :
        /\ i + Len(part) - 1 <= Len(text)
        /\ \A k \in 1 .. Len(part) :
              LowerChar(text[i + k - 1]) = LowerChar(part[k])

\* C18: searchStations(q) returns exactly the stations whose name, city or
\* address contains q without regard to case, on the database-backed
\* storage as on the in-memory storage (which therefore return the same
\* set for the same contents and query).
C18_SearchSemantics ==
    searchResult # <<>> =>
        Range(searchResult[1]) =
            { st \in Range(storedStations) :
                \/ ContainsNoCase(st.nom, searchQuery)
                \/ ContainsNoCase(st.ville, searchQuery)
                \/ ContainsNoCase(st.adresse, searchQuery) }

-----------------------------------------------------------------------------
(* POST /api/stations/load-xml against the cached GET routes               *)
(*                                                                         *)
(* On the database-backed storage every await of the handlers is a round   *)
(* trip to the database, during which other handlers run.  On the          *)
(* in-memory storage the storage calls resolve without leaving the         *)
(* microtask queue, so a handler runs from one input/output wait to the    *)
(* next without another handler in between.                                *)

MaxReload == 2        \* largest number of entries in the feed of a reload

\* the feeds of a reload: entries over Paris and entries at the pole
ReloadFeeds ==
    UNION { [1 .. n -> { <<"48.86", "2.35">>, <<"90", "-180">> }] : n \in 0 .. MaxReload }

\* what storage.getStations / storage.getStationsInBounds return for the
\* cache key on the stations S, storage.ts 31-38, 133-149, 254-256, 288-295
QueryStorage(key, S) ==
    IF key = AllStationsKey
    THEN S
    ELSE SelectSeq(S, LAMBDA station : InBounds(station, ParisBounds))

\* cache.clear(), routes.ts 217
ClearCache == [k \in CacheKeys |-> NoEntry]

\* this.stations.set(station.id, station) / insert ... onConflictDoUpdate
PutStation(S, station) ==
    IF \E j \in DOMAIN S : S[j].id = station.id
    THEN [j \in DOMAIN S |-> IF S[j].id = station.id THEN station ELSE S[j]]
    ELSE Append(S, station)

\* the loop of routes.ts 219-221 run to its end
RECURSIVE AddAll(_, _)
AddAll(S, xmlStations) ==
    IF xmlStations = <<>>
    THEN S
    ELSE AddAll(PutStation(S, Head(xmlStations)), Tail(xmlStations))

InitReload ==
    /\ \E F \in ReloadFeeds : xmlFeed = MkFeed(F)
    /\ loadedStations = <<>>
    /\ storageKind \in {"database", "memory"}
    /\ storedStations = StoreStations
    /\ searchQuery = <<>>
    /\ searchResult = <<>>
    /\ IdleReload
    /\ InitMapVars
    /\ InitClusterVars
    /\ IdlePrice /\ IdleMarker /\ IdleList /\ IdleRoute /\ IdleHome /\ IdleFav

---- (* GET /api/stations and GET /api/stations/bounds, routes.ts 26-74 *)

\* the request arrives; the handler answers from the cache, or asks the
\* storage and, on the in-memory storage, caches and sends what it returns
GetArrive(key) ==
    /\ getReq[key].pc = "idle"
    /\ IF getCachedData(key)
       THEN /\ response' = [response EXCEPT ![key] = [status |-> 200, body |-> cache[key].data]]
            /\ UNCHANGED <<getReq, cache>>
       ELSE IF storageKind = "memory"
       THEN LET stations_ == QueryStorage(key, storedStations) IN
            /\ cache' = setCachedData(key, stations_)
            /\ response' = [response EXCEPT ![key] = [status |-> 200, body |-> stations_]]
            /\ UNCHANGED getReq
       ELSE /\ getReq' = [getReq EXCEPT ![key] = [pc |-> "query", data |-> <<>>]]
            /\ UNCHANGED <<response, cache>>
    /\ UNCHANGED <<reload, xmlFeed, loadedStations, searchVars>>
    /\ UNCHANGED <<bounds, zoom, debouncedBounds, timerActive, timerLeft, q,
                   lastIssued, lastArrived, qAll, refreshing, refreshes>>
    /\ UNCHANGED <<clusterVars, priceVars, markerVars, listVars,
                   restButReload>>

\* the database runs the select of the handler
DbSelect(key) ==
    /\ getReq[key].pc = "query"
    /\ getReq' = [getReq EXCEPT ![key] =
                     [pc |-> "rows", data |-> QueryStorage(key, storedStations)]]
    /\ UNCHANGED <<reload, response>>
    /\ UNCHANGED <<clusterVars, mapVars, priceVars, markerVars, listVars,
                   loaderVars, searchVars,
                   restButReload>>

\* the handler resumes with the rows: setCachedData and res.json
GetRespond(key) ==
    /\ getReq[key].pc = "rows"
    /\ cache' = setCachedData(key, getReq[key].data)
    /\ response' = [response EXCEPT ![key] = [status |-> 200, body |-> getReq[key].data]]
    /\ getReq' = [getReq EXCEPT ![key] = NoRequest]
    /\ UNCHANGED <<reload, xmlFeed, loadedStations, searchVars>>
    /\ UNCHANGED <<bounds, zoom, debouncedBounds, timerActive, timerLeft, q,
                   lastIssued, lastArrived, qAll, refreshing, refreshes>>
    /\ UNCHANGED <<clusterVars, priceVars, markerVars, listVars,
                   restButReload>>

\* the select fails: the storage throws, the catch answers with status 500
GetFail(key) ==
    /\ getReq[key].pc = "query"
    /\ getReq' = [getReq EXCEPT ![key] = NoRequest]
    /\ response' = [response EXCEPT ![key] = [status |-> 500, body |-> <<>>]]
    /\ UNCHANGED reload
    /\ UNCHANGED <<clusterVars, mapVars, priceVars, markerVars, listVars,
                   loaderVars, searchVars,
                   restButReload>>

---- (* POST /api/stations/load-xml, routes.ts 206-235 *)

\* the request arrives: await xmlLoader.loadStations(useLocal)
ReloadArrive ==
    /\ reload.pc = "idle"
    /\ reload' = [reload EXCEPT !.pc = "loading"]
    /\ UNCHANGED <<getReq, response>>
    /\ UNCHANGED <<clusterVars, mapVars, priceVars, markerVars, listVars,
                   loaderVars, searchVars,
                   restButReload>>

\* loadStations throws: the catch answers with status 500
LoadFail ==
    /\ reload.pc = "loading"
    /\ reload' = [reload EXCEPT !.pc = "failed"]
    /\ UNCHANGED <<getReq, response>>
    /\ UNCHANGED <<clusterVars, mapVars, priceVars, markerVars, listVars,
                   loaderVars, searchVars,
                   restButReload>>

\* loadStations returns.  In-memory storage: clearStations, cache.clear()
\* and the loop of addStation calls run without another handler in
\* between.  Database: the delete of clearStations is sent.
LoadReturn ==
    /\ reload.pc = "loading"
    /\ LET xmlStations == parseXMLData(xmlFeed) IN
       /\ loadedStations' = <<xmlStations>>
       /\ IF storageKind = "memory"
          THEN /\ storedStations' = AddAll(<<>>, xmlStations)
               /\ cache' = ClearCache
               /\ reload' = [pc |-> "done", i |-> Len(xmlStations) + 1]
          ELSE /\ reload' = [reload EXCEPT !.pc = "clearing"]
               /\ UNCHANGED <<storedStations, cache>>
    /\ UNCHANGED <<getReq, response, xmlFeed, storageKind, searchQuery, searchResult>>
    /\ UNCHANGED <<bounds, zoom, debouncedBounds, timerActive, timerLeft, q,
                   lastIssued, lastArrived, qAll, refreshing, refreshes>>
    /\ UNCHANGED <<clusterVars, priceVars, markerVars, listVars,
                   restButReload>>

\* the database runs the delete of clearStations
DbDelete ==
    /\ reload.pc = "clearing"
    /\ storedStations' = <<>>
    /\ reload' = [reload EXCEPT !.pc = "cleared"]
    /\ UNCHANGED <<getReq, response, storageKind, searchQuery, searchResult>>
    /\ UNCHANGED <<clusterVars, mapVars, priceVars, markerVars, listVars, loaderVars,
                   restButReload>>

\* the delete fails: clearStations throws, the catch answers with status 500
ClearFail ==
    /\ reload.pc = "clearing"
    /\ reload' = [reload EXCEPT !.pc = "failed"]
    /\ UNCHANGED <<getReq, response>>
    /\ UNCHANGED <<clusterVars, mapVars, priceVars, markerVars, listVars,
                   loaderVars, searchVars,
                   restButReload>>

\* the handler resumes after clearStations: cache.clear(), then the loop
\* sends its first insert, or the response when there is nothing to add
CacheClear ==
    /\ reload.pc = "cleared"
    /\ cache' = ClearCache
    /\ reload' = [pc |-> IF loadedStations[1] = <<>> THEN "done" ELSE "adding", i |-> 1]
    /\ UNCHANGED <<getReq, response, loaderVars, searchVars>>
    /\ UNCHANGED <<bounds, zoom, debouncedBounds, timerActive, timerLeft, q,
                   lastIssued, lastArrived, qAll, refreshing, refreshes>>
    /\ UNCHANGED <<clusterVars, priceVars, markerVars, listVars,
                   restButReload>>

\* the database runs the insert of addStation and the loop goes on
AddStation ==
    /\ reload.pc = "adding"
    /\ storedStations' = PutStation(storedStations, loadedStations[1][reload.i])
    /\ reload' = [pc |-> IF reload.i = Len(loadedStations[1]) THEN "done" ELSE "adding",
                  i |-> reload.i + 1]
    /\ UNCHANGED <<getReq, response, storageKind, searchQuery, searchResult>>
    /\ UNCHANGED <<clusterVars, mapVars, priceVars, markerVars, listVars, loaderVars,
                   restButReload>>

\* the insert fails: addStation throws, the catch answers with status 500
AddFail ==
    /\ reload.pc = "adding"
    /\ reload' = [reload EXCEPT !.pc = "failed"]
    /\ UNCHANGED <<getReq, response>>
    /\ UNCHANGED <<clusterVars, mapVars, priceVars, markerVars, listVars,
                   loaderVars, searchVars,
                   restButReload>>

NextReload ==
    \/ \E key \in ReloadKeys : GetArrive(key)
    \/ \E key \in ReloadKeys : DbSelect(key)
    \/ \E key \in ReloadKeys : GetRespond(key)
    \/ \E key \in ReloadKeys : GetFail(key)
    \/ ReloadArrive
    \/ LoadFail
    \/ LoadReturn
    \/ DbDelete
    \/ ClearFail
    \/ CacheClear
    \/ AddStation
    \/ AddFail

SpecReload == InitReload /\ [][NextReload]_vars

\* C24: once the reload has completed, no cache entry holds a response
\* computed from the store as it was before the reload or during it: every
\* cached response equals what the reloaded store returns.
C24_CacheConsistentAfterReload ==
    reload.pc = "done" =>
        \A key \in ReloadKeys :
            getCachedData(key) =>
                Range(cache[key].data) = Range(QueryStorage(key, storedStations))

\* C25: when the reload has answered with an error, the store still holds
\* every station it held before the request.
C25_FailedReloadKeepsData ==
    reload.pc = "failed" =>
        \A station \in Range(StoreStations) : station \in Range(storedStations)

-----------------------------------------------------------------------------
(* The router: the routes of registerRoutes in their order of registration *)

MaxSegments == 2      \* most path segments after /api/stations in a request

\* the routes, routes.ts 26-271; a segment that starts with ":" is a parameter
Routes ==
    << [method |-> "GET",  path |-> <<"api", "stations">>,                          name |-> "stations"],
       [method |-> "GET",  path |-> <<"api", "stations", "bounds">>,                name |-> "bounds"],
       [method |-> "GET",  path |-> <<"api", "stations", "nearby">>,                name |-> "nearby"],
       [method |-> "GET",  path |-> <<"api", "stations", ":id">>,                   name |-> ":id"],
       [method |-> "GET",  path |-> <<"api", "stations", "search", ":query">>,      name |-> "search"],
       [method |-> "GET",  path |-> <<"api", "stations", "low-price", ":maxPrice">>, name |-> "low-price"],
       [method |-> "POST", path |-> <<"api", "stations">>,                          name |-> "create"],
       [method |-> "GET",  path |-> <<"api", "stations", "stats", "prices">>,       name |-> "stats"],
       [method |-> "POST", path |-> <<"api", "stations", "load-xml">>,              name |-> "load-xml"],
       [method |-> "POST", path |-> <<"api", "stations", "download-xml">>,          name |-> "download-xml"],
       [method |-> "GET",  path |-> <<"api", "stations", "xml-status">>,            name |-> "xml-status"] >>

Params == {":id", ":query", ":maxPrice"}

\* the segments of the request paths: the words of the routes, a station id
\* and a search word
Segments ==
    {"bounds", "nearby", "search", "low-price", "stats", "prices", "load-xml",
     "download-xml", "xml-status", "42", "paris"}

Methods == {"GET", "POST"}

RequestPaths ==
    { <<"api", "stations">> \o tail : tail \in SeqsUpTo(Segments, MaxSegments) }

\* the path matches the pattern of a route: the same number of segments,
\* and every segment is the one of the pattern or stands for a parameter
MatchesPath(pattern, path) ==
    /\ Len(pattern) = Len(path)
    /\ \A k \in DOMAIN pattern : pattern[k] \in Params \/ pattern[k] = path[k]

MatchesRoute(route, method, path) ==
    route.method = method /\ MatchesPath(route.path, path)

\* the router hands the request to the first registered route that matches;
\* every handler answers and none calls next()
FirstMatch(method, path) ==
    IF \E r \in DOMAIN Routes : MatchesRoute(Routes[r], method, path)
    THEN LET r == CHOOSE r \in DOMAIN Routes :
                      /\ MatchesRoute(Routes[r], method, path)
                      /\ \A e \in 1 .. r - 1 : ~ MatchesRoute(Routes[e], method, path)
         IN Routes[r].name
    ELSE "none"

InitRouter ==
    /\ IdleRoute
    /\ IdleReload
    /\ IdleHome
    /\ IdleFav
    /\ InitMapVars
    /\ InitClusterVars
    /\ IdlePrice /\ IdleMarker /\ IdleList /\ IdleLoader /\ IdleSearch

\* a request arrives and is dispatched (the router keeps no state from
\* one request to the next, so one request is followed)
Dispatch(method, path) ==
    /\ request = <<>>
    /\ request' = << [method |-> method, path |-> path] >>
    /\ handledBy' = FirstMatch(method, path)
    /\ UNCHANGED <<clusterVars, mapVars, priceVars, markerVars, listVars,
                   loaderVars, searchVars, restButRoute>>

NextRouter == \E method \in Methods, path \in RequestPaths : Dispatch(method, path)

SpecRouter == InitRouter /\ [][NextRouter]_vars

\* the path is the path of a route without parameters
IsLiteralPath(method, path) ==
    \E r \in DOMAIN Routes :
        /\ Routes[r].method = method
        /\ Routes[r].path = path
        /\ \A k \in DOMAIN path : path[k] \notin Params

\* C26: every GET route is handled by its own handler for its own path: a
\* request for the path of a route without parameters reaches that route,
\* and a request that fits a route with parameters, and is not the path of
\* another route, reaches that route; /api/stations/bounds, /nearby and
\* /xml-status are never handled by the handler of /api/stations/:id.
C26_RouteReachability ==
    request # <<>> =>
        LET method == request[1].method
            path == request[1].path
        IN method = "GET" =>
             /\ \A r \in DOMAIN Routes :
                   (Routes[r].method = "GET" /\ Routes[r].path = path)
                       => handledBy = Routes[r].name
             /\ \A r \in DOMAIN Routes :
                   ( /\ MatchesRoute(Routes[r], "GET", path)
                     /\ ~ IsLiteralPath("GET", path) )
                       => handledBy = Routes[r].name
             /\ path \in { <<"api", "stations", "bounds">>,
                           <<"api", "stations", "nearby">>,
                           <<"api", "stations", "xml-status">> }
                   => handledBy # ":id"

-----------------------------------------------------------------------------
(* useFavorites: the favorites of the user in the local storage *)

MaxFavorites == 4     \* number of station ids that can be made a favorite

FavoriteIds == 1 .. MaxFavorites

\* the lists of ids without repetition: what Array.from gives for a Set
IdLists ==
    { L \in SeqsUpTo(FavoriteIds, MaxFavorites) :
        \A i, j \in DOMAIN L : i # j => L[i] # L[j] }

\* the items that the local storage may hold when the hook mounts
StoredItems ==
    { [kind |-> "none", ids |-> <<>>], [kind |-> "invalid", ids |-> <<>>] }
        \cup { [kind |-> "list", ids |-> L] : L \in IdLists }

InitFav ==
    /\ favPc = "rendered"
    /\ favorites = <<>>
    /\ localStorage \in StoredItems
    /\ saveOutcome = ""
    /\ IdleReload /\ IdleRoute /\ IdleHome
    /\ InitMapVars
    /\ InitClusterVars
    /\ IdlePrice /\ IdleMarker /\ IdleList /\ IdleLoader /\ IdleSearch

\* the effect of the mount, lines 9-19: the stored ids become the favorites;
\* no item, or an item that JSON.parse rejects, leaves the empty set
LoadFavorites ==
    /\ favPc = "rendered"
    /\ favPc' = "mounted"
    /\ favorites' = IF localStorage.kind = "list" THEN localStorage.ids ELSE favorites
    /\ UNCHANGED <<localStorage, saveOutcome>>
    /\ UNCHANGED <<clusterVars, mapVars, priceVars, markerVars, listVars,
                   loaderVars, searchVars, restButFav>>

\* new Set(favorites) with stationId deleted when present and added
\* otherwise, lines 32-37
Toggled(F, stationId) ==
    IF \E i \in DOMAIN F : F[i] = stationId
    THEN SelectSeq(F, LAMBDA x : x # stationId)
    ELSE Append(F, stationId)

toggleFavorite_setsFirst(stationId, writes) ==
    /\ favPc = "mounted"
    /\ LET newFavorites == Toggled(favorites, stationId) IN
       /\ favorites' = newFavorites
       /\ IF writes
          THEN /\ localStorage' = [kind |-> "list", ids |-> newFavorites]
               /\ saveOutcome' = "saved"
          ELSE /\ saveOutcome' = "threw"
               /\ UNCHANGED localStorage
    /\ UNCHANGED favPc
    /\ UNCHANGED <<clusterVars, mapVars, priceVars, markerVars, listVars,
                   loaderVars, searchVars, restButFav>>

\* toggleFavorite(stationId) and the saveFavorites it calls, lines 22-39;
\* writes tells whether localStorage.setItem returns or throws
toggleFavorite(stationId, writes) ==
    /\ favPc = "mounted"
    /\ LET newFavorites == Toggled(favorites, stationId) IN
       IF writes
       THEN /\ localStorage' = [kind |-> "list", ids |-> newFavorites]
            /\ favorites' = newFavorites
            /\ saveOutcome' = "saved"
       ELSE /\ saveOutcome' = "threw"
            /\ UNCHANGED <<localStorage, favorites>>
    /\ UNCHANGED favPc
    /\ UNCHANGED <<clusterVars, mapVars, priceVars, markerVars, listVars,
                   loaderVars, searchVars, restButFav>>

NextFav ==
    \/ LoadFavorites
    \/ \E stationId \in FavoriteIds, writes \in BOOLEAN : toggleFavorite(stationId, writes)

SpecFav == InitFav /\ [][NextFav]_vars

\* C30: a toggleFavorite(id) whose storage write succeeds flips the
\* membership of id in the favorites and of no other id, and afterwards the
\* stored list holds exactly the ids of the favorites, each once; when the
\* write throws, the favorites are unchanged.
C30_FavoritesPersistence ==
    /\ [][\A id \in FavoriteIds :
            toggleFavorite(id, TRUE) =>
                /\ (id \in Range(favorites')) <=> (id \notin Range(favorites))
                /\ \A other \in FavoriteIds \ {id} :
                      (other \in Range(favorites')) <=> (other \in Range(favorites))
                /\ localStorage'.kind = "list"
                /\ Range(localStorage'.ids) = Range(favorites')
                /\ Len(localStorage'.ids) = Cardinality(Range(favorites'))]_vars
    /\ [][\A id \in FavoriteIds :
            toggleFavorite(id, FALSE) => Range(favorites') = Range(favorites)]_vars
    /\ [](saveOutcome = "saved" =>
            /\ localStorage.kind = "list"
            /\ Range(localStorage.ids) = Range(favorites))

\* a write has thrown after two ids were made favorites and one of the
\* stored ones was removed: the favorites still are what is stored
C30_Witness ==
    /\ saveOutcome = "threw"
    /\ Len(favorites) = 2
    /\ localStorage = [kind |-> "list", ids |-> favorites]
    /\ favorites[1] > favorites[2]

=============================================================================
